---------------------------- MODULE Spec2Model ----------------------------
(***************************************************************************)
(* Model of the MeshCore path reconstruction core.                         *)
(*                                                                         *)
(*   - physics.rs     link_cost                                            *)
(*   - terrain.rs     TerrainTile, TerrainMap::get_elevation and           *)
(*                    TerrainMap::check_line_of_sight                      *)
(*   - graph.rs       NetworkGraph::new and NetworkGraph::decode_path      *)
(*                                                                         *)
(* Numbers.  Every f64 cost is kept in fixed point, in millionths          *)
(* (8.0 is 8000000, 8.0 - 1.0e-6 is 7999999).  The three Unknown           *)
(* penalties and the start bonus are exact in that unit; a link cost is    *)
(* the value of physics.rs rounded to the nearest millionth.  Sums of at   *)
(* most a handful of such terms are far below the width of an f64          *)
(* mantissa, so the comparisons of the decoder come out as in the code.    *)
(* f64::INFINITY is the largest value of the model and is only ever        *)
(* compared, never added to.                                               *)
(*                                                                         *)
(* Geometry.  Repeaters stand on the meridian lon = 0 at latitudes that    *)
(* are multiples of 0.05 degree, written in hundredths of a degree; the    *)
(* haversine distance of two such points is R * dlat.                      *)
(*                                                                         *)
(* Repeaters.  A repeater is kept as the byte Repeater::prefix parses from *)
(* its identifier and its latitude.  nodes_by_prefix has 256 rows in the   *)
(* code; the model keeps the rows of the bytes that occur in a stream.     *)
(*                                                                         *)
(* Hash maps.  current_costs is a std HashMap, whose iteration order is    *)
(* not specified and differs between instances; a forward step visits the  *)
(* active states in any order.                                             *)
(*                                                                         *)
(* Terrain.  A terrain map addresses a point in ten-thousandths of a       *)
(* degree (11.12 m), so that paths shorter than one 30 m sample exist; a   *)
(* sample of a path is the rational num / den of that unit.  Elevations    *)
(* and antenna heights are in centimetres.  Every sample of a tile's grid  *)
(* has the same elevation, as in the tiles of terrain.rs's own tests.      *)
(*                                                                         *)
(* Spec        decodes, one after another, on a graph built once.          *)
(* SpecRepeat  the same, and a caller may decode a stream a second time    *)
(*             and hold the first answer against the second.               *)
(***************************************************************************)
EXTENDS Integers, Sequences, FiniteSets

\* ------------------------------------------------------------------ bounds

\* Largest number of repeaters in the table handed to NetworkGraph::new.
MaxNodes == 2

\* Longest observation stream handed to decode_path.
MaxObs == 3

\* Latitudes (hundredths of a degree) a repeater may stand at.  The pairwise
\* differences give links that are nearly free (0, 5, 35), cheap (45), dearer
\* than one Unknown penalty (50), dearer than two (55), capped at 1000.0
\* (60, 90, 95, 105) and out of range (140).
Lats == {0, 45, 50, 105, 140}

\* Prefix bytes of the repeaters in the table (0xA0, 0xB0).
Prefixes == {160, 176}

\* Bytes that occur in an observation stream: the prefixes above and 0xC0,
\* which matches no repeater.
ObsBytes == {160, 176, 192}

\* ------------------------------------------------------------- constants

\* f64::INFINITY
Infinity == 2147483647

MAX_LINK_RANGE_KM == 150

\* A changed constant: the epsilons subtracted from the stay penalty
\* (8.0 - 2.0e-6), staying Unknown cheaper than leaving it.
StayCheaperThanExit == 8 * 1000000 - 2

COST_TRANSITION_UNKNOWN_TO_UNKNOWN == 8000000

\* A changed constant: the epsilon of the exit penalty added instead of
\* subtracted (8.0 + 1.0e-6).
ExitDearerThanStay == COST_TRANSITION_UNKNOWN_TO_UNKNOWN + 1

COST_TRANSITION_UNKNOWN_TO_KNOWN == 7999999

\* A changed constant: entering Unknown given the exit penalty.
EnterAsDearAsExit == COST_TRANSITION_UNKNOWN_TO_KNOWN

COST_TRANSITION_KNOWN_TO_UNKNOWN == 7999998

COST_START_KNOWN == -100000

\* The value link_cost returns when the combined probability is below 1e-10.
COST_CAPPED == 1000000000

\* The bound NetworkGraph::new tests a link cost against (1000.0).
ADJACENCY_COST_LIMIT == 1000000000
\* The value link_cost returns when the line of sight is not clear, 2000.0.
COST_BLOCKED == 2000000000
\* The antenna height link_cost hands to the line-of-sight check, 30.0 m, in cm.
ANTENNA_HEIGHT == 3000
\* The sample spacing of the line-of-sight check, 30.0 m, in cm.
SAMPLE_SPACING == 3000
\* Twice the earth radius of terrain.rs line 323, 2 * 6371000 m, in km.
TWICE_EARTH_RADIUS_KM == 12742
\* Ten-thousandths of a degree in one hundredth of a degree.
FinePerHundredth == 100

\* --------------------------------------------------------------- helpers

Abs(x) == IF x < 0 THEN -x ELSE x

\* HashMap::insert on a map kept as a function with a finite domain.
Put(m, k, v) == [x \in (DOMAIN m) \cup {k} |-> IF x = k THEN v ELSE m[x]]

EmptyMap == [x \in {} |-> 0]

RECURSIVE Reverse(_)
Reverse(s) == IF s = <<>> THEN <<>> ELSE Append(Reverse(Tail(s)), Head(s))

\* ---------------------------------------------------------------- models.rs

Known(idx) == <<"Known", idx>>

Unknown(prefix) == <<"Unknown", prefix>>

\* The longest identifier.
MaxIdLen == 4

\* The characters of an identifier, each named by a string; every one is a
\* single byte of UTF-8 but the last (U+00E9), which is two.
Chars == {"0", "x", "A", "b", "g", "+", "e_acute"}

Ids == UNION {[1..n -> Chars] : n \in 0..MaxIdLen}

\* The bytes a character takes in a String.
len_utf8(c) == IF c = "e_acute" THEN 2 ELSE 1

\* char::to_digit(16): the value of a hexadecimal digit, -1 for any other
\* character.
to_digit(c) ==
    CASE c = "0" -> 0
      [] c = "A" -> 10
      [] c = "b" -> 11
      [] OTHER   -> -1

\* str::trim_start_matches("0x"): every leading repetition of the pattern
\* is removed.
RECURSIVE trim_start_matches(_)
trim_start_matches(s) ==
    IF Len(s) >= 2 /\ s[1] = "0" /\ s[2] = "x"
    THEN trim_start_matches(SubSeq(s, 3, Len(s)))
    ELSE s

\* &clean_id[0..2]: the characters of the first two bytes.  The slice
\* panics if the string has fewer than two bytes or if byte 2 is inside a
\* character.
Panicked == [panicked |-> TRUE, value |-> 0]

Returns(v) == [panicked |-> FALSE, value |-> v]

first_two_bytes(s) ==
    IF s = <<>> THEN Panicked
    ELSE IF len_utf8(s[1]) = 2 THEN Returns(<<s[1]>>)
    ELSE IF Len(s) < 2 THEN Panicked
    ELSE IF len_utf8(s[2]) = 2 THEN Panicked
    ELSE Returns(<<s[1], s[2]>>)

\* u8::from_str_radix(src, 16) on a string of at most two characters: an
\* optional "+" and then hexadecimal digits, at least one; -1 for Err.
from_str_radix(src) ==
    LET digits == IF src # <<>> /\ src[1] = "+" /\ Len(src) > 1
                  THEN Tail(src) ELSE src
    IN  IF digits = <<>> \/ \E k \in 1..Len(digits) : to_digit(digits[k]) < 0
        THEN -1
        ELSE IF Len(digits) = 1 THEN to_digit(digits[1])
        ELSE 16 * to_digit(digits[1]) + to_digit(digits[2])

\* Repeater::prefix, lines 16-19.
Repeater_prefix(s) ==
    LET slice == first_two_bytes(trim_start_matches(s))
    IN  IF slice.panicked THEN Panicked
        ELSE IF from_str_radix(slice.value) < 0 THEN Returns(0)
        ELSE Returns(from_str_radix(slice.value))

\* ---------------------------------------------------------------- physics.rs

\* haversine_distance for two points of the meridian lon = 0, in metres:
\* 6371 km * dlat(rad); 0.01 degree is 1111.949 m.
haversine_distance(lat1, lat2) == (Abs(lat2 - lat1) * 1111949) \div 1000

\* -ln(dist_prob * bulge_prob) of physics.rs lines 72-90, in millionths, for
\* the distances of the model's grid (dlat in steps of 0.05 degree).  From
\* 65.6 km on (dlat >= 0.59 degree) the combined probability is below 1e-10
\* and the function returns 1000.0.
NegLogProb(dist_m) ==
    CASE dist_m = 0     -> 123
      [] dist_m = 5559  -> 284
      [] dist_m = 11119 -> 654
      [] dist_m = 16679 -> 1505
      [] dist_m = 22238 -> 3462
      [] dist_m = 27798 -> 7957
      [] dist_m = 33358 -> 18331
      [] dist_m = 38918 -> 47291
      [] dist_m = 44477 -> 533036
      [] dist_m = 50037 -> 4775040
      [] dist_m = 55597 -> 10740252
      [] dist_m = 61157 -> 17475391
      [] OTHER          -> COST_CAPPED

\* --------------------------------------------------------------- terrain.rs

\* Option<T>
None == <<"None">>

Some(x) == <<"Some", x>>

\* Result<bool>
OkBool(b) == <<"Ok", b>>

ErrMsg(msg) == <<"Err", msg>>

\* haversine_distance for two points of the meridian given in
\* ten-thousandths of a degree, in centimetres (0.0001 degree is 11.119492 m).
haversine_distance_cm(lat1, lat2) == (Abs(lat2 - lat1) * 111195) \div 100

\* TerrainTile::contains for the point (num / den, 0), lines 22-24.
contains(tile, num, den) ==
    /\ num >= tile.min_lat * den
    /\ num <= tile.max_lat * den
    /\ 0 >= tile.min_lon
    /\ 0 <= tile.max_lon

\* TerrainTile::get_elevation, lines 26-55: 0.0 outside the tile, inside it
\* the bilinear interpolation of four samples, which all hold tile.elev.
tile_get_elevation(tile, num, den) ==
    IF ~contains(tile, num, den) THEN 0 ELSE tile.elev

\* A lookup in which a later tile that contains the point overrides.
RECURSIVE get_elevation_last(_, _, _)
get_elevation_last(tiles, num, den) ==
    IF tiles = <<>> THEN None
    ELSE LET later == get_elevation_last(Tail(tiles), num, den)
         IN  IF later # None THEN later
             ELSE IF contains(Head(tiles), num, den)
                  THEN Some(tile_get_elevation(Head(tiles), num, den))
                  ELSE None

\* TerrainMap::get_elevation, lines 286-293.
RECURSIVE get_elevation(_, _, _)
get_elevation(tiles, num, den) ==
    IF tiles = <<>> THEN None
    ELSE IF contains(Head(tiles), num, den)
         THEN Some(tile_get_elevation(Head(tiles), num, den))
         ELSE get_elevation(Tail(tiles), num, den)

\* One iteration of the loop of check_line_of_sight, lines 321-343, for
\* sample i of the path `ray`: "missing" if no tile holds the sample,
\* "blocked" if the terrain and the curvature rise above the ray, "clear"
\* if the loop goes on.  Distances along the path are in decametres, the
\* curvature (d1 * d2) / (2 R) in centimetres.
sample_verdict(tiles, ray, i) ==
    LET num == ray.lat1 * ray.steps + (ray.lat2 - ray.lat1) * i
        ray_h == ray.start_h + ((ray.end_h - ray.start_h) * i) \div ray.steps
        d1 == (ray.dist_dam * i) \div ray.steps
        d2 == ray.dist_dam - d1
        curvature == (d1 * d2 * 10) \div TWICE_EARTH_RADIUS_KM
        terrain_h == get_elevation(tiles, num, ray.steps)
    IN  IF terrain_h = None THEN "missing"
        ELSE IF ray_h < terrain_h[2] + curvature THEN "blocked"
        ELSE "clear"

\* The samples taken in one piece.
SCAN_BLOCK == 128

\* The loop `for i in 1..steps` from sample `from` on, SCAN_BLOCK samples
\* at a time: the first sample that is not clear decides.
RECURSIVE scan_samples(_, _, _)
scan_samples(tiles, ray, from) ==
    LET upto == IF from + SCAN_BLOCK < ray.steps THEN from + SCAN_BLOCK - 1
                ELSE ray.steps - 1
        stops == {i \in from..upto : sample_verdict(tiles, ray, i) # "clear"}
        first == CHOOSE i \in stops : \A j \in stops : i <= j
    IN  IF stops # {}
        THEN IF sample_verdict(tiles, ray, first) = "missing"
             THEN ErrMsg("Missing terrain data along path")
             ELSE OkBool(FALSE)
        ELSE IF upto >= ray.steps - 1 THEN OkBool(TRUE)
        ELSE scan_samples(tiles, ray, upto + 1)

\* TerrainMap::check_line_of_sight, lines 299-346.
check_line_of_sight(tiles, lat1, h1, lat2, h2) ==
    LET dist_cm == haversine_distance_cm(lat1, lat2)
        steps == (dist_cm + SAMPLE_SPACING - 1) \div SAMPLE_SPACING
        start_elev == get_elevation(tiles, lat1, 1)
        end_elev == get_elevation(tiles, lat2, 1)
    IN  IF dist_cm = 0 THEN OkBool(TRUE)
        ELSE IF steps < 2 THEN OkBool(TRUE)
        ELSE IF start_elev = None THEN ErrMsg("Missing terrain data at start")
        ELSE IF end_elev = None THEN ErrMsg("Missing terrain data at end")
        ELSE scan_samples(tiles,
                          [lat1 |-> lat1, lat2 |-> lat2, steps |-> steps,
                           start_h |-> start_elev[2] + h1,
                           end_h |-> end_elev[2] + h2,
                           dist_dam |-> dist_cm \div 1000],
                          1)

\* -------------------------------------------------------- physics.rs, link_cost

\* link_cost(lat1, 0, lat2, 0, terrain), lines 43-91, for latitudes in
\* hundredths of a degree.  Line 55 takes the value check_line_of_sight
\* returns as the condition of an `if`, while terrain.rs returns a
\* Result<bool>: for Ok(b) the condition is b, and for Err the source does
\* not say which branch is taken; err_as is the branch.
link_cost(lat1, lat2, terrain, err_as) ==
    LET dist_m == haversine_distance(lat1, lat2)
        report == check_line_of_sight(terrain[2],
                                      lat1 * FinePerHundredth, ANTENNA_HEIGHT,
                                      lat2 * FinePerHundredth, ANTENNA_HEIGHT)
        clear == IF report[1] = "Ok" THEN report[2] ELSE err_as
    IN  IF terrain # None /\ ~clear THEN COST_BLOCKED
        ELSE IF dist_m > MAX_LINK_RANGE_KM * 1000 THEN Infinity
        ELSE NegLogProb(dist_m)

\* ------------------------------------------------------------------ graph.rs

VARIABLES
    nodes,             \* NetworkGraph.nodes: index 0..N-1 -> [prefix, lat]
    adjacency,         \* NetworkGraph.adjacency: index -> sequence of <<j, cost>>
    nodes_by_prefix,   \* NetworkGraph.nodes_by_prefix: byte -> sequence of indices
    observations,      \* decode_path: the argument
    pc,                \* decode_path: "idle", "forward" or "done"
    t,                 \* decode_path: the forward pass's next step (0-based)
    current_costs,     \* decode_path: active state -> cost
    backpointers,      \* decode_path: per step, state -> previous state
    result,            \* the value decode_path returned
    earlier,           \* the value an earlier call on the same stream returned
    terrain_map,       \* Option<&TerrainMap>: None or Some(sequence of tiles)
    p1,                \* a point of the meridian, in ten-thousandths of a degree
    p2,                \* a second point
    call,              \* the last call of a function and the value it returned
    id,                \* Repeater.id, a sequence of characters
    paths,             \* localize_unknowns: the argument, a sequence of paths
    observations_by_prefix,  \* localize_unknowns: byte -> sequence of midpoints
    remaining,         \* localize_unknowns: the keys the loop of line 72 has not yet seen
    results,           \* localize_unknowns: the Vec of InferredRepeaters
    lpc,               \* localize_unknowns: "idle", "cluster" or "done"
    suspended,         \* the locals of a decode_path call that is not running
    dist,              \* find_path: node index -> lowest cost found so far
    prev_map,          \* find_path: prev, node index -> the node before it
    heap,              \* find_path: the BinaryHeap, a set of <<cost, node_idx>>
    start_idx,         \* find_path: the argument
    end_idx,           \* find_path: the argument
    route,             \* find_path: the Option<Vec<usize>> returned
    fpc                \* find_path: "idle", "search" or "done"

\* What the decoder reads and writes.
decoder == <<nodes, adjacency, nodes_by_prefix, observations, pc, t,
             current_costs, backpointers, result, earlier>>

\* What the terrain and physics functions are applied to.
terrain_calls == <<terrain_map, p1, p2, call>>

\* What localize_unknowns reads and writes, apart from the repeater table.
localization == <<paths, observations_by_prefix, remaining, results, lpc>>

\* What find_path reads and writes, apart from the repeater table.
pathfinding == <<dist, prev_map, heap, start_idx, end_idx, route, fpc>>

\* Everything the decoder leaves alone.
elsewhere == <<terrain_calls, id, localization, suspended, pathfinding>>

vars == <<decoder, elsewhere>>

graph == <<nodes, adjacency, nodes_by_prefix>>

Ok(path) == [ok |-> TRUE, path |-> path, err |-> ""]

Err(msg) == [ok |-> FALSE, path |-> <<>>, err |-> msg]

NoResult == Err("none")

\* The indices k <= i < n that are in S, in ascending order, as a sequence
\* (what pushing to a Vec inside `for (i, _) in nodes.iter().enumerate()` gives).
RECURSIVE IndicesFrom(_, _, _)
IndicesFrom(k, n, S) ==
    IF k >= n THEN <<>>
    ELSE (IF k \in S THEN <<k>> ELSE <<>>) \o IndicesFrom(k + 1, n, S)

\* (MAX_LINK_RANGE_KM / 111.0) * 1.2 degrees, in hundredths of a degree.
search_radius_deg == (MAX_LINK_RANGE_KM * 120) \div 111

\* rtree.locate_in_envelope: the points inside the box around repeater i.
InEnvelope(ns, i, j) == Abs(ns[j].lat - ns[i].lat) <= search_radius_deg

\* NetworkGraph::new, the prefix table.
NewNodesByPrefix(ns) ==
    LET n == Cardinality(DOMAIN ns)
    IN  [p \in ObsBytes |->
            IndicesFrom(0, n, {i \in DOMAIN ns : ns[i].prefix = p})]

\* An adjacency list that keeps every finite cost.
NewAdjacencyNoLimit(ns, terrain, err_as) ==
    LET n == Cardinality(DOMAIN ns)
        candidates(i) == {j \in DOMAIN ns : InEnvelope(ns, i, j) /\ i # j}
        cost == [i \in DOMAIN ns |->
                    [j \in candidates(i) |->
                        link_cost(ns[i].lat, ns[j].lat, terrain, err_as)]]
    IN  [i \in DOMAIN ns |->
            LET keep == {j \in candidates(i) : cost[i][j] # Infinity}
                idx == IndicesFrom(0, n, keep)
            IN  [k \in 1..Len(idx) |-> <<idx[k], cost[i][idx[k]]>>]]

\* NetworkGraph::new, the adjacency list.  The R-tree yields every stored
\* index once; the order of a repeater's neighbours has no effect on the
\* decoder, and the list is kept in ascending index order.
NewAdjacency(ns, terrain, err_as) ==
    LET n == Cardinality(DOMAIN ns)
        candidates(i) == {j \in DOMAIN ns : InEnvelope(ns, i, j) /\ i # j}
        cost == [i \in DOMAIN ns |->
                    [j \in candidates(i) |->
                        link_cost(ns[i].lat, ns[j].lat, terrain, err_as)]]
    IN  [i \in DOMAIN ns |->
            LET keep == {j \in candidates(i) :
                            /\ cost[i][j] # Infinity
                            /\ cost[i][j] < ADJACENCY_COST_LIMIT}
                idx == IndicesFrom(0, n, keep)
            IN  [k \in 1..Len(idx) |-> <<idx[k], cost[i][idx[k]]>>]]

Repeaters == [prefix : Prefixes, lat : Lats]

NodeTables == UNION {[0..(n - 1) -> Repeaters] : n \in 0..MaxNodes}

ObsStreams == UNION {[1..n -> ObsBytes] : n \in 0..MaxObs}

\* ------------------------------------------------- decode_path, step by step

unknown_state_idx == Cardinality(DOMAIN nodes)

t_steps == Len(observations)

\* A changed Relax: the comparison with the entry forgotten, the last
\* predecessor visited wins.
RelaxOverwrite(acc, key, total, prev) ==
    [costs |-> Put(acc.costs, key, total), bps |-> Put(acc.bps, key, prev)]

\* A changed Relax: or_insert(total) instead of or_insert(f64::INFINITY), so
\* the first predecessor of a state enters its cost and no back-pointer.
RelaxOrInsertTotal(acc, key, total, prev) ==
    LET entry == IF key \in DOMAIN acc.costs THEN acc.costs[key] ELSE total
    IN  IF total < entry
        THEN [costs |-> Put(acc.costs, key, total), bps |-> Put(acc.bps, key, prev)]
        ELSE [costs |-> Put(acc.costs, key, entry), bps |-> acc.bps]

\* A changed Relax: the comparison turned round, the dearest predecessor of
\* a state is kept.
RelaxKeepsDearest(acc, key, total, prev) ==
    LET entry == IF key \in DOMAIN acc.costs THEN acc.costs[key] ELSE -Infinity
    IN  IF total > entry
        THEN [costs |-> Put(acc.costs, key, total), bps |-> Put(acc.bps, key, prev)]
        ELSE [costs |-> Put(acc.costs, key, entry), bps |-> acc.bps]

\* let entry = next_costs.entry(key).or_insert(f64::INFINITY);
\* if total < *entry { *entry = total; step_backpointers.insert(key, prev); }
Relax(acc, key, total, prev) ==
    LET entry == IF key \in DOMAIN acc.costs THEN acc.costs[key] ELSE Infinity
    IN  IF total < entry
        THEN [costs |-> Put(acc.costs, key, total), bps |-> Put(acc.bps, key, prev)]
        ELSE [costs |-> Put(acc.costs, key, entry), bps |-> acc.bps]

\* A changed KnownToKnown: the prefix filter on the neighbour forgotten.
RECURSIVE KnownToKnownUnfiltered(_, _, _, _, _)
KnownToKnownUnfiltered(acc, neighbors, prev_idx, prev_cost, obs) ==
    IF neighbors = <<>> THEN acc
    ELSE KnownToKnownUnfiltered(
             Relax(acc, Head(neighbors)[1], prev_cost + Head(neighbors)[2], prev_idx),
             Tail(neighbors), prev_idx, prev_cost, obs)

\* 1a. Known -> Known over the neighbours of prev_idx that match obs.
RECURSIVE KnownToKnown(_, _, _, _, _)
KnownToKnown(acc, neighbors, prev_idx, prev_cost, obs) ==
    IF neighbors = <<>> THEN acc
    ELSE LET neighbor_idx == Head(neighbors)[1]
             link_c       == Head(neighbors)[2]
             nxt == IF nodes[neighbor_idx].prefix = obs
                    THEN Relax(acc, neighbor_idx, prev_cost + link_c, prev_idx)
                    ELSE acc
         IN  KnownToKnown(nxt, Tail(neighbors), prev_idx, prev_cost, obs)

\* A changed UnknownToKnown: the loop of lines 194-201 is missing.
UnknownToKnownNever(acc, candidates, prev_idx, prev_cost) == acc

\* 2a. Unknown -> Known for every repeater whose prefix is obs.
RECURSIVE UnknownToKnown(_, _, _, _)
UnknownToKnown(acc, candidates, prev_idx, prev_cost) ==
    IF candidates = <<>> THEN acc
    ELSE UnknownToKnown(
             Relax(acc, Head(candidates),
                   prev_cost + COST_TRANSITION_UNKNOWN_TO_KNOWN, prev_idx),
             Tail(candidates), prev_idx, prev_cost)

\* A changed Visit: a Known predecessor also snaps to every repeater that
\* matches obs, at the exit penalty, whether or not a link joins the two.
VisitSnapFromKnown(acc, prev_idx, prev_cost, obs) ==
    Relax(UnknownToKnown(acc, nodes_by_prefix[obs], prev_idx, prev_cost),
          unknown_state_idx,
          prev_cost + (IF prev_idx < unknown_state_idx
                       THEN COST_TRANSITION_KNOWN_TO_UNKNOWN
                       ELSE COST_TRANSITION_UNKNOWN_TO_UNKNOWN),
          prev_idx)

\* The body of `for (&prev_idx, &prev_cost) in &current_costs`.
Visit(acc, prev_idx, prev_cost, obs) ==
    IF prev_idx < unknown_state_idx
    THEN Relax(KnownToKnown(acc, adjacency[prev_idx], prev_idx, prev_cost, obs),
               unknown_state_idx,
               prev_cost + COST_TRANSITION_KNOWN_TO_UNKNOWN, prev_idx)
    ELSE Relax(UnknownToKnown(acc, nodes_by_prefix[obs], prev_idx, prev_cost),
               unknown_state_idx,
               prev_cost + COST_TRANSITION_UNKNOWN_TO_UNKNOWN, prev_idx)

\* One forward step with the active states visited in the given order.
RECURSIVE ForwardPass(_, _, _)
ForwardPass(acc, order, obs) ==
    IF order = <<>> THEN acc
    ELSE ForwardPass(Visit(acc, Head(order), current_costs[Head(order)], obs),
                     Tail(order), obs)

\* The orders in which a HashMap may yield the keys S.
RECURSIVE IterationOrders(_)
IterationOrders(S) ==
    IF S = {} THEN {<<>>}
    ELSE UNION {{<<x>> \o p : p \in IterationOrders(S \ {x})} : x \in S}

\* Step 0: the active map after initialisation.
RECURSIVE InsertAll(_, _, _)
InsertAll(m, keys, v) ==
    IF keys = <<>> THEN m ELSE InsertAll(Put(m, Head(keys), v), Tail(keys), v)

\* A changed initialisation: only the Unknown state is inserted.
InitialCostsUnknownOnly(first_obs) == Put(EmptyMap, unknown_state_idx, 0)

\* A changed initialisation: line 152 is missing, the Unknown state is not
\* inserted.
InitialCostsKnownOnly(first_obs) ==
    InsertAll(EmptyMap, nodes_by_prefix[first_obs], COST_START_KNOWN)

InitialCosts(first_obs) ==
    Put(InsertAll(EmptyMap, nodes_by_prefix[first_obs], COST_START_KNOWN),
        unknown_state_idx, 0)

\* A changed BestFinal: best_final_cost is never updated, so every active
\* state replaces the one chosen before it.
RECURSIVE BestFinalStale(_, _)
BestFinalStale(state_idx, best) ==
    IF state_idx > unknown_state_idx THEN best
    ELSE BestFinalStale(state_idx + 1,
                        IF /\ state_idx \in DOMAIN current_costs
                           /\ current_costs[state_idx] < Infinity
                        THEN <<Infinity, state_idx>>
                        ELSE best)

\* A changed BestFinal: `cost <= best_final_cost`, so of the states of equal
\* cost the last in ascending order wins.
RECURSIVE BestFinalLastWins(_, _)
BestFinalLastWins(state_idx, best) ==
    IF state_idx > unknown_state_idx THEN best
    ELSE BestFinalLastWins(state_idx + 1,
                           IF /\ state_idx \in DOMAIN current_costs
                              /\ current_costs[state_idx] <= best[1]
                           THEN <<current_costs[state_idx], state_idx>>
                           ELSE best)

\* Termination: the keys in ascending order, the first strict minimum wins.
\* best is <<cost, state>>, state -1 standing for None.
RECURSIVE BestFinal(_, _)
BestFinal(state_idx, best) ==
    IF state_idx > unknown_state_idx THEN best
    ELSE BestFinal(state_idx + 1,
                   IF /\ state_idx \in DOMAIN current_costs
                      /\ current_costs[state_idx] < best[1]
                   THEN <<current_costs[state_idx], state_idx>>
                   ELSE best)

to_path_node(idx, step_idx) ==
    IF idx < unknown_state_idx THEN Known(idx)
    ELSE Unknown(observations[step_idx + 1])

\* A changed Backtrack: the loop runs over (2..t_steps).rev().
RECURSIVE BacktrackStopsEarly(_, _, _)
BacktrackStopsEarly(curr_idx, tt, path) ==
    IF tt < 2 THEN Ok(Reverse(path))
    ELSE IF curr_idx \in DOMAIN backpointers[tt + 1]
         THEN LET prev_idx == backpointers[tt + 1][curr_idx]
              IN  BacktrackStopsEarly(prev_idx, tt - 1,
                                      Append(path, to_path_node(prev_idx, tt - 1)))
         ELSE Err("Broken path during backtracking")

\* Backtracking, `for t in (1..t_steps).rev()`; path is in reverse order.
RECURSIVE Backtrack(_, _, _)
Backtrack(curr_idx, tt, path) ==
    IF tt < 1 THEN Ok(Reverse(path))
    ELSE IF curr_idx \in DOMAIN backpointers[tt + 1]
         THEN LET prev_idx == backpointers[tt + 1][curr_idx]
              IN  Backtrack(prev_idx, tt - 1,
                            Append(path, to_path_node(prev_idx, tt - 1)))
         ELSE Err("Broken path during backtracking")

\* Lines 221-268.
Finish ==
    LET best == BestFinal(0, <<Infinity, -1>>)
    IN  IF best[2] # -1
        THEN Backtrack(best[2], t_steps - 1,
                       <<to_path_node(best[2], t_steps - 1)>>)
        ELSE Err("No valid path found (final state unreachable)")

\* A changed Enter: the test for an empty stream is missing and
\* observations[0] panics.
EnterNoEmptyCheck(obs) ==
    /\ observations' = obs
    /\ IF obs = <<>>
       THEN /\ result' = Err("panic: index out of bounds")
            /\ pc' = "done"
            /\ UNCHANGED <<t, current_costs, backpointers>>
       ELSE /\ backpointers' = <<EmptyMap>>
            /\ current_costs' = InitialCosts(obs[1])
            /\ t' = 1
            /\ pc' = "forward"
            /\ result' = NoResult
    /\ UNCHANGED graph

\* Entry of decode_path: lines 122-152.
Enter(obs) ==
    /\ observations' = obs
    /\ IF obs = <<>>
       THEN /\ result' = Ok(<<>>)
            /\ pc' = "done"
            /\ UNCHANGED <<t, current_costs, backpointers>>
       ELSE /\ backpointers' = <<EmptyMap>>
            /\ current_costs' = InitialCosts(obs[1])
            /\ t' = 1
            /\ pc' = "forward"
            /\ result' = NoResult
    /\ UNCHANGED graph

\* A caller decodes a stream.
decode_path ==
    /\ pc = "idle"
    /\ \E obs \in ObsStreams : Enter(obs)
    /\ UNCHANGED earlier
    /\ UNCHANGED elsewhere

\* One iteration of the forward pass, lines 155-219.
forward_step ==
    /\ pc = "forward"
    /\ t < t_steps
    /\ \E nxt \in {ForwardPass([costs |-> EmptyMap, bps |-> EmptyMap],
                                order, observations[t + 1]) :
                        order \in IterationOrders(DOMAIN current_costs)} :
              IF DOMAIN nxt.costs = {}
              THEN /\ result' = Err("Viterbi stuck: no reachable states")
                   /\ pc' = "done"
                   /\ UNCHANGED <<t, current_costs, backpointers>>
              ELSE /\ current_costs' = nxt.costs
                   /\ backpointers' = Append(backpointers, nxt.bps)
                   /\ t' = t + 1
                   /\ UNCHANGED <<pc, result>>
    /\ UNCHANGED <<graph, observations, earlier>>
    /\ UNCHANGED elsewhere

\* Termination and backtracking, lines 221-268.
finish ==
    /\ pc = "forward"
    /\ t = t_steps
    /\ result' = Finish
    /\ pc' = "done"
    /\ UNCHANGED <<graph, observations, t, current_costs, backpointers, earlier>>
    /\ UNCHANGED elsewhere

\* The caller decodes the same stream once more and keeps the first answer.
decode_again ==
    /\ pc = "done"
    /\ earlier = NoResult
    /\ earlier' = result
    /\ Enter(observations)
    /\ UNCHANGED elsewhere

\* The caller drops what it holds; the decoder's locals are gone.
release ==
    /\ pc = "done"
    /\ pc' = "idle"
    /\ observations' = <<>>
    /\ t' = 0
    /\ current_costs' = EmptyMap
    /\ backpointers' = <<>>
    /\ result' = NoResult
    /\ earlier' = NoResult
    /\ UNCHANGED graph
    /\ UNCHANGED elsewhere

\* No call has been made.
NoCall == [op |-> "none", ret |-> None]

\* No terrain map is loaded and no function of terrain.rs is applied.
TerrainIdle ==
    /\ terrain_map = None
    /\ p1 = 0
    /\ p2 = 0
    /\ call = NoCall

\* No identifier is being parsed.
PrefixIdle == id = <<>>

\* The locals of a decode_path call that has not started.
NotStarted ==
    [observations |-> <<>>, pc |-> "idle", t |-> 0, current_costs |-> EmptyMap,
     backpointers |-> <<>>, result |-> NoResult]

\* No second decode_path call exists.
TasksIdle == suspended = NotStarted

\* find_path is not running.
PathfindingIdle ==
    /\ dist = EmptyMap
    /\ prev_map = EmptyMap
    /\ heap = {}
    /\ start_idx = 0
    /\ end_idx = 0
    /\ route = None
    /\ fpc = "idle"

\* localize_unknowns is not running.
LocalizeIdle ==
    /\ paths = <<>>
    /\ observations_by_prefix = EmptyMap
    /\ remaining = {}
    /\ results = <<>>
    /\ lpc = "idle"

Init ==
    /\ nodes \in NodeTables
    /\ adjacency = NewAdjacency(nodes, None, TRUE)
    /\ nodes_by_prefix = NewNodesByPrefix(nodes)
    /\ observations = <<>>
    /\ pc = "idle"
    /\ t = 0
    /\ current_costs = EmptyMap
    /\ backpointers = <<>>
    /\ result = NoResult
    /\ earlier = NoResult
    /\ TerrainIdle
    /\ PrefixIdle
    /\ LocalizeIdle
    /\ TasksIdle
    /\ PathfindingIdle

\* One decode after another on a graph built once.
Next ==
    \/ decode_path
    \/ forward_step
    \/ finish
    \/ release

Spec == Init /\ [][Next]_vars

\* The same, with a caller that may decode a stream twice and compare.
NextRepeat ==
    \/ decode_path
    \/ forward_step
    \/ finish
    \/ decode_again
    \/ release

SpecRepeat == Init /\ [][NextRepeat]_vars


\* ---------------------------------------------------------------- vocabulary

Returned == pc = "done"

IsKnown(n) == n[1] = "Known"

IsUnknown(n) == n[1] = "Unknown"

\* The repeaters whose prefix is p.
Matching(p) == {i \in DOMAIN nodes : nodes[i].prefix = p}

\* The costs adjacency[i] holds for j.
EdgeCosts(i, j) ==
    {adjacency[i][k][2] : k \in {k \in 1..Len(adjacency[i]) : adjacency[i][k][1] = j}}

HasEdge(i, j) == EdgeCosts(i, j) # {}

\* The state a path node stands for.
StateOf(n) == IF IsKnown(n) THEN n[2] ELSE unknown_state_idx

StatesOf(path) == [i \in 1..Len(path) |-> StateOf(path[i])]

\* The state sequences of the length of the stream that satisfy the emission
\* constraint and take Known -> Known steps along adjacency edges only.
ValidSequence(s) ==
    /\ \A i \in 1..Len(s) :
          s[i] = unknown_state_idx \/ nodes[s[i]].prefix = observations[i]
    /\ \A i \in 1..(Len(s) - 1) :
          (s[i] # unknown_state_idx /\ s[i + 1] # unknown_state_idx)
              => HasEdge(s[i], s[i + 1])

ValidSequences ==
    {s \in [1..Len(observations) -> 0..unknown_state_idx] : ValidSequence(s)}

\* The cost of one transition of a valid sequence.
TransitionCost(from, to) ==
    IF from # unknown_state_idx
    THEN IF to # unknown_state_idx
         THEN CHOOSE c \in EdgeCosts(from, to) : \A d \in EdgeCosts(from, to) : c <= d
         ELSE 7999998
    ELSE IF to # unknown_state_idx THEN 7999999 ELSE 8000000

\* Initial cost plus the transition costs up to position i.
RECURSIVE TotalCost(_, _)
TotalCost(s, i) ==
    IF i = 1 THEN (IF s[1] # unknown_state_idx THEN -100000 ELSE 0)
    ELSE TotalCost(s, i - 1) + TransitionCost(s[i - 1], s[i])

\* ----------------------------------------------------------------------- C1
\* C1: decode_path returns an error or a path with exactly as many nodes as
\* the stream has observations, never a shorter or longer one.
C1_FullLengthOrError ==
    Returned => (~result.ok \/ Len(result.path) = Len(observations))

C1_Witness ==
    /\ Returned
    /\ result.ok
    /\ Len(observations) >= 2
    /\ Len(result.path) = Len(observations)

\* ----------------------------------------------------------------------- C2
\* C2: the node at each position of a returned path is Known(k) with
\* prefix(k) equal to that step's observation, or Unknown carrying that
\* step's observation.
C2_EmissionRespected ==
    (Returned /\ result.ok) =>
        \A i \in 1..Len(result.path) :
            /\ i <= Len(observations)
            /\ \/ result.path[i] = Unknown(observations[i])
               \/ /\ IsKnown(result.path[i])
                  /\ result.path[i][2] \in Matching(observations[i])

\* A returned path with a Known and an Unknown node, in a graph that holds a
\* repeater of another prefix linked to the Known one.
C2_Witness ==
    /\ Returned
    /\ result.ok
    /\ \E i, j \in 1..Len(result.path) :
          /\ IsKnown(result.path[i])
          /\ IsUnknown(result.path[j])
          /\ \E k \in DOMAIN nodes :
                /\ HasEdge(result.path[i][2], k)
                /\ nodes[k].prefix # observations[j]

\* ----------------------------------------------------------------------- C3
\* C3: the returned path is a valid state sequence and no valid state
\* sequence of the same length costs strictly less.
C3_MinimumCost ==
    (Returned /\ observations # <<>>) =>
        /\ result.ok
        /\ StatesOf(result.path) \in ValidSequences
        /\ \A s \in ValidSequences :
              TotalCost(StatesOf(result.path), Len(observations))
                  <= TotalCost(s, Len(observations))

\* A returned path of three Known nodes although an all-Unknown and a mixed
\* sequence are valid too.
C3_Witness ==
    /\ Returned
    /\ result.ok
    /\ Len(observations) = 3
    /\ \A i \in 1..3 : IsKnown(result.path[i])
    /\ Cardinality(ValidSequences) >= 4

\* ----------------------------------------------------------------------- C4
\* C4: a second call of decode_path on the same graph and the same stream
\* returns exactly what the first call returned.
C4_SameResultOnEveryCall ==
    (Returned /\ earlier # NoResult) => result = earlier

\* ----------------------------------------------------------------------- C5
\* The ground-truth path the stream stands for when every observation is the
\* prefix of exactly one repeater.
UniquelyMatched == \A i \in 1..Len(observations) : Cardinality(Matching(observations[i])) = 1

GroundTruth == [i \in 1..Len(observations) |-> CHOOSE k \in Matching(observations[i]) : TRUE]

GroundTruthPath == [i \in 1..Len(observations) |-> Known(GroundTruth[i])]

\* C5 as claimed: if every observation is the prefix of exactly one repeater
\* and consecutive repeaters of that path are joined by an adjacency edge,
\* the decoder returns the path.
C5_RoundTrip ==
    (/\ Returned
     /\ UniquelyMatched
     /\ \A i \in 1..(Len(observations) - 1) : HasEdge(GroundTruth[i], GroundTruth[i + 1]))
        => result = Ok(GroundTruthPath)

\* C5 amended: the same with every edge of the path cheaper than the
\* Known -> Unknown penalty.
C5_RoundTripCheapEdges ==
    (/\ Returned
     /\ UniquelyMatched
     /\ \A i \in 1..(Len(observations) - 1) :
           /\ HasEdge(GroundTruth[i], GroundTruth[i + 1])
           /\ \A c \in EdgeCosts(GroundTruth[i], GroundTruth[i + 1]) :
                 c < COST_TRANSITION_KNOWN_TO_UNKNOWN)
        => result = Ok(GroundTruthPath)

C5_Witness ==
    /\ Returned
    /\ Len(observations) = 3
    /\ UniquelyMatched
    /\ \A i \in 1..2 :
          /\ HasEdge(GroundTruth[i], GroundTruth[i + 1])
          /\ \A c \in EdgeCosts(GroundTruth[i], GroundTruth[i + 1]) :
                c < COST_TRANSITION_KNOWN_TO_UNKNOWN
    /\ result = Ok(GroundTruthPath)

\* ----------------------------------------------------------------------- C6
\* C6: Known(i) immediately followed by Known(j) in a returned path means
\* adjacency[i] holds an entry for j.
C6_ConsecutiveKnownsAreLinked ==
    (Returned /\ result.ok) =>
        \A i \in 1..(Len(result.path) - 1) :
            (IsKnown(result.path[i]) /\ IsKnown(result.path[i + 1]))
                => HasEdge(result.path[i][2], result.path[i + 1][2])

\* Both cases: two linked Knowns in a row, and two repeaters that match
\* consecutive observations, have no link and are not decoded in a row.
C6_Witness ==
    /\ Returned
    /\ result.ok
    /\ Len(result.path) = 3
    /\ IsKnown(result.path[1]) /\ IsKnown(result.path[2])
    /\ ~IsKnown(result.path[3])
    /\ \E j \in Matching(observations[3]) : ~HasEdge(result.path[2][2], j)

\* ----------------------------------------------------------------------- C7
\* C7: for [prefix(a), prefix(b)] with a and b the only repeaters of their
\* prefixes and no edge from a to b, the result is [Known(a), Unknown(prefix(b))].
C7_DisconnectedPair ==
    (/\ Returned
     /\ Len(observations) = 2
     /\ UniquelyMatched
     /\ ~HasEdge(GroundTruth[1], GroundTruth[2]))
        => result = Ok(<<Known(GroundTruth[1]), Unknown(observations[2])>>)

C7_Witness ==
    /\ Returned
    /\ Len(observations) = 2
    /\ UniquelyMatched
    /\ GroundTruth[1] # GroundTruth[2]
    /\ ~HasEdge(GroundTruth[1], GroundTruth[2])
    /\ result = Ok(<<Known(GroundTruth[1]), Unknown(observations[2])>>)

\* ----------------------------------------------------------------------- C8
\* The stream starts and ends with a prefix of exactly one repeater and no
\* interior observation matches a repeater.
GapStream ==
    /\ Len(observations) >= 3
    /\ Cardinality(Matching(observations[1])) = 1
    /\ Cardinality(Matching(observations[Len(observations)])) = 1
    /\ \A i \in 2..(Len(observations) - 1) : Matching(observations[i]) = {}

GapPath ==
    [i \in 1..Len(observations) |->
        IF i = 1 \/ i = Len(observations)
        THEN Known(CHOOSE k \in Matching(observations[i]) : TRUE)
        ELSE Unknown(observations[i])]

\* C8: such a stream decodes to Known(a), Unknown(o_t) at every interior
\* position, Known(c), whatever the distance between a and c.
C8_GapRecovery == (Returned /\ GapStream) => result = Ok(GapPath)

\* The case with a and c too far apart for a link.
C8_Witness ==
    /\ Returned
    /\ GapStream
    /\ result = Ok(GapPath)
    /\ result.path[1] # result.path[Len(observations)]
    /\ ~HasEdge(result.path[1][2], result.path[Len(observations)][2])

\* ----------------------------------------------------------------------- C9
\* C9: an empty stream decodes to an empty path, not an error, for every
\* graph.
C9_EmptyStream == (Returned /\ observations = <<>>) => result = Ok(<<>>)

\* The case of a graph with no repeater.
C9_Witness ==
    /\ Returned
    /\ observations = <<>>
    /\ DOMAIN nodes = {}
    /\ result = Ok(<<>>)

\* ---------------------------------------------------------------------- C10
\* The first forward step is done and its costs are the ones held.
AfterStepOne == Len(backpointers) = 2

\* What step 1 added to the cost of the predecessor it kept for state s.
StepOneCost(s) ==
    current_costs[s] - InitialCosts(observations[1])[backpointers[2][s]]

\* The penalties step 1 applied, by kind of transition.
AppliedEnter ==
    {StepOneCost(s) : s \in {s \in DOMAIN backpointers[2] :
        s = unknown_state_idx /\ backpointers[2][s] < unknown_state_idx}}

AppliedExit ==
    {StepOneCost(s) : s \in {s \in DOMAIN backpointers[2] :
        s < unknown_state_idx /\ backpointers[2][s] = unknown_state_idx}}

AppliedStay ==
    {StepOneCost(s) : s \in {s \in DOMAIN backpointers[2] :
        s = unknown_state_idx /\ backpointers[2][s] = unknown_state_idx}}

\* C10 as claimed: the penalties of the decoder, the constants and the
\* values a forward step applies, are ordered
\* cost(Unknown -> Known) < cost(Known -> Unknown) < cost(Unknown -> Unknown).
C10_ExitBelowEnterBelowStay ==
    AfterStepOne =>
        \A e \in AppliedEnter \cup {COST_TRANSITION_KNOWN_TO_UNKNOWN} :
        \A x \in AppliedExit \cup {COST_TRANSITION_UNKNOWN_TO_KNOWN} :
        \A y \in AppliedStay \cup {COST_TRANSITION_UNKNOWN_TO_UNKNOWN} :
            x < e /\ e < y

\* C10 amended: they are ordered
\* cost(Known -> Unknown) < cost(Unknown -> Known) < cost(Unknown -> Unknown).
C10_EnterBelowExitBelowStay ==
    AfterStepOne =>
        \A e \in AppliedEnter \cup {COST_TRANSITION_KNOWN_TO_UNKNOWN} :
        \A x \in AppliedExit \cup {COST_TRANSITION_UNKNOWN_TO_KNOWN} :
        \A y \in AppliedStay \cup {COST_TRANSITION_UNKNOWN_TO_UNKNOWN} :
            e < x /\ x < y

\* A step that entered Unknown from a Known state and left Unknown for a
\* Known state.
C10_Witness ==
    /\ AfterStepOne
    /\ AppliedEnter # {}
    /\ AppliedExit # {}

\* ------------------------------------------- terrain and physics, applied

\* Tiles of the meridian: [min_lat, max_lat, min_lon, max_lon] in
\* ten-thousandths of a degree, elev in centimetres.
Tile(min_lat, max_lat, min_lon, max_lon, elev) ==
    [min_lat |-> min_lat, max_lat |-> max_lat,
     min_lon |-> min_lon, max_lon |-> max_lon, elev |-> elev]

\* Sea level from the equator to 1.5 degrees north.
Flat == Tile(0, 15000, -100, 100, 0)
\* A ridge of 2000 m between 0.47 and 0.48 degrees north.
Wall == Tile(4700, 4800, -100, 100, 200000)
\* The same latitudes as Flat, east of the meridian.
Off == Tile(0, 15000, 100, 200, 200000)
\* Sea level with no data between 0.485 and 0.49 degrees north.
South == Tile(0, 4850, -100, 100, 0)
North == Tile(4900, 15000, -100, 100, 0)
\* Two summits of 1000 m, 155.7 km apart.
PeakS == Tile(0, 10, -100, 100, 100000)
PeakN == Tile(13990, 14000, -100, 100, 100000)

TerrainMaps ==
    {<<>>, <<Flat>>, <<Wall, Flat>>, <<Flat, Wall>>, <<Off, Flat>>,
     <<Wall, South, North>>, <<PeakS, PeakN, Flat>>}

TerrainOptions == {None} \cup {Some(m) : m \in TerrainMaps}

\* Points 11 m, 44 m, 5.6 km, 50 km, 155.7 km and more apart, inside and
\* outside the tiles.
TerrainPoints == {0, 4500, 5000, 14000, 16000, 16001, 16004, 17000}

\* The points link_cost's table of distances covers: multiples of 0.05 degree.
OnGrid(p) == p % (5 * FinePerHundredth) = 0

\* The outcomes of `if !map.check_line_of_sight(..)` on an Err.
ErrReadings == BOOLEAN

\* The decoder has no graph and does nothing.
DecoderIdle ==
    /\ nodes = <<>>
    /\ adjacency = <<>>
    /\ nodes_by_prefix = NewNodesByPrefix(<<>>)
    /\ observations = <<>>
    /\ pc = "idle"
    /\ t = 0
    /\ current_costs = EmptyMap
    /\ backpointers = <<>>
    /\ result = NoResult
    /\ earlier = NoResult

\* map.get_elevation(p1, 0.0)
get_elevation_call ==
    /\ call = NoCall
    /\ terrain_map # None
    /\ call' = [op |-> "get_elevation", ret |-> get_elevation(terrain_map[2], p1, 1)]
    /\ UNCHANGED <<decoder, terrain_map, p1, p2, id, localization, suspended,
                   pathfinding>>

\* map.check_line_of_sight(p1, 0.0, 30.0, p2, 0.0, 30.0)
check_line_of_sight_call ==
    /\ call = NoCall
    /\ terrain_map # None
    /\ call' = [op |-> "check_line_of_sight",
                ret |-> check_line_of_sight(terrain_map[2], p1, ANTENNA_HEIGHT,
                                            p2, ANTENNA_HEIGHT)]
    /\ UNCHANGED <<decoder, terrain_map, p1, p2, id, localization, suspended,
                   pathfinding>>

\* link_cost(p1, 0.0, p2, 0.0, terrain_map)
link_cost_call ==
    /\ call = NoCall
    /\ OnGrid(p1)
    /\ OnGrid(p2)
    /\ \E err_as \in ErrReadings :
          call' = [op |-> "link_cost",
                   ret |-> link_cost(p1 \div FinePerHundredth,
                                     p2 \div FinePerHundredth, terrain_map, err_as)]
    /\ UNCHANGED <<decoder, terrain_map, p1, p2, id, localization, suspended,
                   pathfinding>>

\* NetworkGraph::new(vec![repeater at p1, repeater at p2, repeater at p1],
\* terrain_map): two repeaters, and a third on the spot of the first.
NetworkGraph_new ==
    /\ call = NoCall
    /\ OnGrid(p1)
    /\ OnGrid(p2)
    /\ \E prefix \in Prefixes, err_as \in ErrReadings :
          LET ns == [i \in 0..2 |->
                        IF i = 1
                        THEN [prefix |-> prefix, lat |-> p2 \div FinePerHundredth]
                        ELSE [prefix |-> prefix, lat |-> p1 \div FinePerHundredth]]
          IN  /\ nodes' = ns
              /\ adjacency' = NewAdjacency(ns, terrain_map, err_as)
              /\ nodes_by_prefix' = NewNodesByPrefix(ns)
    /\ call' = [op |-> "NetworkGraph::new", ret |-> None]
    /\ UNCHANGED <<observations, pc, t, current_costs, backpointers, result,
                   earlier, terrain_map, p1, p2, id, localization, suspended,
                   pathfinding>>

InitTerrain ==
    /\ terrain_map \in TerrainOptions
    /\ p1 \in TerrainPoints
    /\ p2 \in TerrainPoints
    /\ call = NoCall
    /\ DecoderIdle
    /\ PrefixIdle
    /\ LocalizeIdle
    /\ TasksIdle
    /\ PathfindingIdle

NextTerrain ==
    \/ get_elevation_call
    \/ check_line_of_sight_call
    \/ link_cost_call
    \/ NetworkGraph_new

\* The functions of terrain.rs and physics.rs and the construction of the
\* graph, applied to a terrain map and two points.
SpecTerrain == InitTerrain /\ [][NextTerrain]_vars

\* ---------------------------------------------------------------------- C11

\* link_cost was called and returned.
LinkCostReturned == call.op = "link_cost"

\* The haversine distance of p1 and p2 exceeds 150 km.
BeyondRange ==
    haversine_distance(p1 \div FinePerHundredth, p2 \div FinePerHundredth)
        > MAX_LINK_RANGE_KM * 1000

\* C11: link_cost returns +infinity for every pair of points more than
\* 150 km apart, with or without a terrain map and whatever the
\* line-of-sight check reports for the pair.
C11_InfiniteBeyondRange ==
    (LinkCostReturned /\ BeyondRange) => call.ret = Infinity

\* ---------------------------------------------------------------------- C12

\* check_line_of_sight was called and returned.
LosReturned == call.op = "check_line_of_sight"

\* The number of 30 m steps of the path from p1 to p2.
PathSteps == (haversine_distance_cm(p1, p2) + SAMPLE_SPACING - 1) \div SAMPLE_SPACING

\* No tile covers an endpoint or an interior sample of the path from p1 to p2.
DataMissing ==
    \/ get_elevation(terrain_map[2], p1, 1) = None
    \/ get_elevation(terrain_map[2], p2, 1) = None
    \/ \E i \in 1..(PathSteps - 1) :
          get_elevation(terrain_map[2], p1 * PathSteps + (p2 - p1) * i, PathSteps) = None

\* C12: check_line_of_sight returns Err whenever terrain data is missing at
\* an endpoint or at an interior sample of the path, never Ok(true) or
\* Ok(false), whatever the order of blocked and missing samples and however
\* short the path.
C12_MissingDataIsAnError ==
    (LosReturned /\ DataMissing) => call.ret[1] = "Err"

\* ---------------------------------------------------------------------- C13

\* get_elevation was called and returned.
ElevationReturned == call.op = "get_elevation"

\* The tiles of the map that contain p1, by position in construction order.
Containing == {k \in 1..Len(terrain_map[2]) : contains(terrain_map[2][k], p1, 1)}

FirstContaining == CHOOSE k \in Containing : \A other \in Containing : k <= other

\* C13: TerrainMap::get_elevation returns Some(elevation of the first tile,
\* in construction order, that contains the point) and None exactly when no
\* tile contains it; a later overlapping tile never overrides an earlier one.
C13_FirstTileDecides ==
    ElevationReturned =>
        IF Containing = {}
        THEN call.ret = None
        ELSE call.ret = Some(tile_get_elevation(terrain_map[2][FirstContaining], p1, 1))

\* Two tiles of different elevation overlap at the point, the first decided.
C13_Witness ==
    /\ ElevationReturned
    /\ \E k \in Containing :
          /\ k > FirstContaining
          /\ terrain_map[2][k].elev # terrain_map[2][FirstContaining].elev
    /\ call.ret = Some(terrain_map[2][FirstContaining].elev)

\* ---------------------------------------------------------------------- C14

\* NetworkGraph::new has returned.
GraphBuilt == DOMAIN nodes # {}

\* The indices stored in adjacency[i].
Neighbours(i) == {adjacency[i][k][1] : k \in 1..Len(adjacency[i])}

\* C14: after NetworkGraph::new every entry (j, cost) of adjacency[i] has
\* j # i, a valid index j, a finite cost and cost < 1000, so neither the cap
\* 1000.0 nor the terrain sentinel 2000.0 is stored; and a repeater on the
\* spot of another, under a different index, is not excluded.
C14_AdjacencyWellFormed ==
    GraphBuilt =>
        /\ \A i \in DOMAIN adjacency : \A k \in 1..Len(adjacency[i]) :
              /\ adjacency[i][k][1] # i
              /\ adjacency[i][k][1] \in DOMAIN nodes
              /\ adjacency[i][k][2] # Infinity
              /\ adjacency[i][k][2] < 1000 * 1000000
              /\ adjacency[i][k][2] # COST_CAPPED
              /\ adjacency[i][k][2] # COST_BLOCKED
        /\ \A i \in DOMAIN nodes, j \in DOMAIN nodes :
              (i # j /\ nodes[i].lat = nodes[j].lat) => j \in Neighbours(i)

\* A graph built over a ridge: the repeater behind the ridge is not a
\* neighbour, the repeater on the same spot is.
C14_Witness ==
    /\ GraphBuilt
    /\ terrain_map = Some(<<Wall, Flat>>)
    /\ nodes[0].lat = 45
    /\ nodes[1].lat = 50
    /\ nodes[2].lat = 45
    /\ Neighbours(0) = {2}
    /\ Neighbours(1) = {}

\* -------------------------------------------------- Repeater::prefix, applied

\* repeater.prefix()
prefix_call ==
    /\ call = NoCall
    /\ call' = [op |-> "prefix", ret |-> Repeater_prefix(id)]
    /\ UNCHANGED <<decoder, terrain_map, p1, p2, id, localization, suspended,
                   pathfinding>>

InitPrefix ==
    /\ id \in Ids
    /\ DecoderIdle
    /\ TerrainIdle
    /\ LocalizeIdle
    /\ TasksIdle
    /\ PathfindingIdle

NextPrefix == prefix_call

\* Repeater::prefix applied to an identifier.
SpecPrefix == InitPrefix /\ [][NextPrefix]_vars

\* ---------------------------------------------------------------------- C20

\* prefix() was called and came to an end.
PrefixCalled == call.op = "prefix"

\* The identifier without one leading "0x", if it has one.
AfterOptional0x ==
    IF Len(id) >= 2 /\ id[1] = "0" /\ id[2] = "x" THEN SubSeq(id, 3, Len(id)) ELSE id

\* The first two characters after the optional "0x" are not a hex byte.
Malformed ==
    \/ Len(AfterOptional0x) < 2
    \/ to_digit(AfterOptional0x[1]) < 0
    \/ to_digit(AfterOptional0x[2]) < 0

\* C20: Repeater::prefix returns 0 for every malformed identifier, the
\* empty and the one-character identifier included, and never panics.
C20_MalformedYieldsZero ==
    PrefixCalled =>
        /\ ~call.ret.panicked
        /\ Malformed => call.ret.value = 0

\* ----------------------------------------------------------- localization.rs

DBSCAN_EPSILON_KM == 50

DBSCAN_MIN_POINTS == 1

\* A midpoint: latitude in ten-thousandths of a degree, on the meridian.
LinkMidpoint(lat, lon) == [lat |-> lat, lon |-> lon]

\* observations_by_prefix.entry(key).or_default().push(v)
entry_push(m, key, v) ==
    IF key \in DOMAIN m THEN [m EXCEPT ![key] = Append(@, v)]
    ELSE Put(m, key, <<v>>)

\* The loop over path.windows(3), lines 46-67, from the window that starts
\* at position k on.
RECURSIVE windows_from(_, _, _, _)
windows_from(acc, known_nodes, path, k) ==
    IF k + 2 > Len(path) THEN acc
    ELSE LET window == SubSeq(path, k, k + 2)
             k1 == known_nodes[window[1][2]]
             k2 == known_nodes[window[3][2]]
             mid_lat == ((k1.lat + k2.lat) * FinePerHundredth) \div 2
         IN  IF /\ window[1][1] = "Known"
                /\ window[2][1] = "Unknown"
                /\ window[3][1] = "Known"
             THEN windows_from(entry_push(acc, window[2][2], LinkMidpoint(mid_lat, 0)),
                               known_nodes, path, k + 1)
             ELSE windows_from(acc, known_nodes, path, k + 1)

\* An extraction that slides the window over the paths laid end to end.
RECURSIVE extract_midpoints_spanning(_, _, _)
extract_midpoints_spanning(acc, known_nodes, ps) ==
    IF ps = <<>> THEN acc
    ELSE IF Len(ps) = 1 THEN windows_from(acc, known_nodes, Head(ps), 1)
    ELSE extract_midpoints_spanning(acc, known_nodes,
                                    <<ps[1] \o ps[2]>> \o SubSeq(ps, 3, Len(ps)))

\* The loop over the paths, lines 41-68.
RECURSIVE extract_midpoints(_, _, _)
extract_midpoints(acc, known_nodes, ps) ==
    IF ps = <<>> THEN acc
    ELSE IF Len(Head(ps)) < 3
         THEN extract_midpoints(acc, known_nodes, Tail(ps))
         ELSE extract_midpoints(windows_from(acc, known_nodes, Head(ps), 1),
                                known_nodes, Tail(ps))

\* A region query that leaves the centre out.
region_query_without_centre(points, center_idx, epsilon) ==
    IndicesFrom(1, Len(points) + 1,
                {i \in 1..Len(points) :
                    /\ i # center_idx
                    /\ haversine_distance_cm(points[center_idx].lat, points[i].lat)
                          <= epsilon * 100000})

\* region_query, lines 194-205: the indices within epsilon km of the centre,
\* the centre among them, in ascending order.  Indices count from 1.
region_query(points, center_idx, epsilon) ==
    IndicesFrom(1, Len(points) + 1,
                {i \in 1..Len(points) :
                    haversine_distance_cm(points[center_idx].lat, points[i].lat)
                        <= epsilon * 100000})

\* for n in neighbors { if !seeds.contains(&n) { seeds.push(n) } }
RECURSIVE push_new(_, _)
push_new(seeds, neighbors) ==
    IF neighbors = <<>> THEN seeds
    ELSE IF \E k \in 1..Len(seeds) : seeds[k] = Head(neighbors)
         THEN push_new(seeds, Tail(neighbors))
         ELSE push_new(Append(seeds, Head(neighbors)), Tail(neighbors))

\* The while loop of expand_cluster, lines 158-191; st holds status, cluster
\* and seeds, i is the position in seeds.
RECURSIVE expand_loop(_, _, _, _, _, _)
expand_loop(points, seed_idx, epsilon, min_points, st, i) ==
    IF i > Len(st.seeds) THEN st
    ELSE
      LET curr_idx == st.seeds[i]
          neighbors == region_query(points, curr_idx, epsilon)
          taken == [st EXCEPT !.status[curr_idx] = "Visited",
                              !.cluster = Append(@, curr_idx)]
      IN  IF curr_idx = seed_idx
          THEN expand_loop(points, seed_idx, epsilon, min_points, st, i + 1)
          ELSE CASE st.status[curr_idx] = "Noise" ->
                      expand_loop(points, seed_idx, epsilon, min_points, taken, i + 1)
                 [] st.status[curr_idx] = "Unvisited" ->
                      expand_loop(points, seed_idx, epsilon, min_points,
                                  IF Len(neighbors) >= min_points
                                  THEN [taken EXCEPT !.seeds = push_new(@, neighbors)]
                                  ELSE taken,
                                  i + 1)
                 [] OTHER ->
                      expand_loop(points, seed_idx, epsilon, min_points, st, i + 1)

\* A cluster that takes the seed and nothing else.
expand_cluster_seed_only(points, status, seed_idx, seeds, epsilon, min_points) ==
    [status |-> status, cluster |-> <<seed_idx>>, seeds |-> seeds]

\* expand_cluster, lines 144-192.
expand_cluster(points, status, seed_idx, seeds, epsilon, min_points) ==
    expand_loop(points, seed_idx, epsilon, min_points,
                [status |-> status, cluster |-> <<seed_idx>>, seeds |-> seeds], 1)

\* The loop of dbscan, lines 116-139, from point i on.
RECURSIVE dbscan_loop(_, _, _, _, _, _)
dbscan_loop(points, epsilon, min_points, status, clusters, i) ==
    IF i > Len(points) THEN clusters
    ELSE IF status[i] # "Unvisited"
         THEN dbscan_loop(points, epsilon, min_points, status, clusters, i + 1)
    ELSE
      LET visited == [status EXCEPT ![i] = "Visited"]
          neighbors == region_query(points, i, epsilon)
          grown == expand_cluster(points, visited, i, neighbors, epsilon, min_points)
      IN  IF Len(neighbors) < min_points
          THEN dbscan_loop(points, epsilon, min_points,
                           [status EXCEPT ![i] = "Noise"], clusters, i + 1)
          ELSE dbscan_loop(points, epsilon, min_points,
                           grown.status, Append(clusters, grown.cluster), i + 1)

\* dbscan, lines 112-142: the clusters, each a sequence of indices of points.
dbscan(points, epsilon, min_points) ==
    dbscan_loop(points, epsilon, min_points,
                [i \in 1..Len(points) |-> "Unvisited"], <<>>, 1)

\* One digit of {:02x}, as its ASCII code.
hex_char(d) == IF d < 10 THEN 48 + d ELSE 97 + (d - 10)

\* format!("{:02x}", prefix): a string is the sequence of its ASCII codes.
format_02x(prefix) == <<hex_char(prefix \div 16), hex_char(prefix % 16)>>

RECURSIVE sum_lat(_, _)
sum_lat(points, cluster) ==
    IF cluster = <<>> THEN 0
    ELSE points[Head(cluster)].lat + sum_lat(points, Tail(cluster))

\* The loop over the clusters of one prefix, lines 75-92.
RECURSIVE push_clusters(_, _, _, _)
push_clusters(acc, prefix, points, clusters) ==
    IF clusters = <<>> THEN acc
    ELSE IF Head(clusters) = <<>>
         THEN push_clusters(acc, prefix, points, Tail(clusters))
    ELSE
      LET count == Len(Head(clusters))
      IN  push_clusters(Append(acc, [prefix |-> format_02x(prefix),
                                     lat |-> sum_lat(points, Head(clusters)) \div count,
                                     lon |-> 0,
                                     observation_count |-> count]),
                        prefix, points, Tail(clusters))

\* String::cmp: byte by byte, the shorter string first.
RECURSIVE str_cmp(_, _)
str_cmp(a, b) ==
    IF a = <<>> /\ b = <<>> THEN "Equal"
    ELSE IF a = <<>> THEN "Less"
    ELSE IF b = <<>> THEN "Greater"
    ELSE IF Head(a) < Head(b) THEN "Less"
    ELSE IF Head(a) > Head(b) THEN "Greater"
    ELSE str_cmp(Tail(a), Tail(b))

\* f64::partial_cmp(..).unwrap_or(Equal) on two numbers.
num_cmp(a, b) == IF a < b THEN "Less" ELSE IF a > b THEN "Greater" ELSE "Equal"

\* A comparison that looks at the latitude only.
compare_lat_only(a, b) == num_cmp(a.lat, b.lat)

\* The closure of lines 96-99.
compare(a, b) ==
    IF str_cmp(a.prefix, b.prefix) # "Equal" THEN str_cmp(a.prefix, b.prefix)
    ELSE num_cmp(a.lat, b.lat)

\* x goes behind every element it is not less than.
RECURSIVE insert_sorted(_, _)
insert_sorted(sorted, x) ==
    IF sorted = <<>> THEN <<x>>
    ELSE IF compare(x, Head(sorted)) = "Less" THEN <<x>> \o sorted
    ELSE <<Head(sorted)>> \o insert_sorted(Tail(sorted), x)

\* A sort that leaves the list as it is.
sort_by_nothing(v) == v

\* Vec::sort_by, a stable sort.
RECURSIVE sort_by(_)
sort_by(v) ==
    IF v = <<>> THEN <<>>
    ELSE insert_sorted(sort_by(SubSeq(v, 1, Len(v) - 1)), v[Len(v)])

\* ---------------------------------------------- localize_unknowns, step by step

\* The most paths handed to localize_unknowns.
MaxPaths == 3

\* The repeater table: two repeaters 0.8 degree (89 km) apart.
LocalizeNodes ==
    [i \in 0..1 |-> [prefix |-> 160, lat |-> IF i = 0 THEN 0 ELSE 80]]

\* The prefixes of the Unknown nodes: 0x0a and 0x10.
UnknownPrefixes == {10, 16}

\* Decoded paths: none, too short, one window, two windows, Unknown nodes
\* in a row and at the ends, either prefix.
PathShapes ==
    {<<>>,
     <<Known(0)>>,
     <<Known(0), Unknown(10)>>,
     <<Known(0), Unknown(10), Known(0)>>,
     <<Known(0), Unknown(10), Known(1)>>,
     <<Known(1), Unknown(10), Known(1)>>,
     <<Known(0), Unknown(16), Known(0)>>,
     <<Known(1), Unknown(16), Known(0)>>,
     <<Known(0), Known(1), Known(0)>>,
     <<Unknown(10), Known(0), Unknown(10)>>,
     <<Known(0), Unknown(10), Unknown(10), Known(1)>>,
     <<Known(0), Unknown(10), Known(0), Unknown(10), Known(1)>>,
     <<Known(1), Unknown(16), Known(1), Unknown(10), Known(1)>>}

PathLists == UNION {[1..n -> PathShapes] : n \in 0..MaxPaths}

\* localize_unknowns is called: lines 39-70.
localize_unknowns ==
    /\ lpc = "idle"
    /\ observations_by_prefix' = extract_midpoints(EmptyMap, nodes, paths)
    /\ remaining' = DOMAIN observations_by_prefix'
    /\ results' = <<>>
    /\ lpc' = "cluster"
    /\ UNCHANGED <<decoder, terrain_calls, id, suspended, pathfinding, paths>>

\* One iteration of the loop of line 72 over the hash map, which yields its
\* keys in any order.
cluster_prefix ==
    /\ lpc = "cluster"
    /\ \E prefix \in remaining :
          /\ results' = push_clusters(results, prefix, observations_by_prefix[prefix],
                                      dbscan(observations_by_prefix[prefix],
                                             DBSCAN_EPSILON_KM, DBSCAN_MIN_POINTS))
          /\ remaining' = remaining \ {prefix}
    /\ UNCHANGED <<decoder, terrain_calls, id, suspended, pathfinding, paths, observations_by_prefix, lpc>>

\* The sort and the return, lines 95-101.
sort_and_return ==
    /\ lpc = "cluster"
    /\ remaining = {}
    /\ results' = sort_by(results)
    /\ lpc' = "done"
    /\ UNCHANGED <<decoder, terrain_calls, id, suspended, pathfinding, paths, observations_by_prefix, remaining>>

InitLocalize ==
    /\ paths \in PathLists
    /\ observations_by_prefix = EmptyMap
    /\ remaining = {}
    /\ results = <<>>
    /\ lpc = "idle"
    /\ nodes = LocalizeNodes
    /\ adjacency = NewAdjacency(nodes, None, TRUE)
    /\ nodes_by_prefix = NewNodesByPrefix(nodes)
    /\ observations = <<>>
    /\ pc = "idle"
    /\ t = 0
    /\ current_costs = EmptyMap
    /\ backpointers = <<>>
    /\ result = NoResult
    /\ earlier = NoResult
    /\ TerrainIdle
    /\ PrefixIdle
    /\ TasksIdle
    /\ PathfindingIdle

NextLocalize ==
    \/ localize_unknowns
    \/ cluster_prefix
    \/ sort_and_return

\* localize_unknowns on a list of decoded paths.
SpecLocalize == InitLocalize /\ [][NextLocalize]_vars

\* ------------------------------------------------- vocabulary of localization

\* localize_unknowns has returned `results`.
Localized == lpc = "done"

\* The midpoints recorded under a prefix.
Recorded(prefix) ==
    IF prefix \in DOMAIN observations_by_prefix
    THEN observations_by_prefix[prefix] ELSE <<>>

\* The places <<path, position>> of an Unknown(prefix) whose predecessor and
\* successor in the same path are both Known.
Windows(prefix) ==
    {w \in UNION {{<<n, k>> : k \in 2..(Len(paths[n]) - 1)} : n \in 1..Len(paths)} :
        /\ paths[w[1]][w[2]] = Unknown(prefix)
        /\ IsKnown(paths[w[1]][w[2] - 1])
        /\ IsKnown(paths[w[1]][w[2] + 1])}

\* v comes before w in the order of the paths and of the positions in a path.
Before(v, w) == v[1] < w[1] \/ (v[1] = w[1] /\ v[2] < w[2])

\* The midpoint of the two Known neighbours of place w.
MidpointAt(w) ==
    LinkMidpoint(((nodes[paths[w[1]][w[2] - 1][2]].lat
                   + nodes[paths[w[1]][w[2] + 1][2]].lat) * FinePerHundredth) \div 2, 0)

\* The midpoints of the windows of a prefix, in order.
ExpectedMidpoints(prefix) ==
    [n \in 1..Cardinality(Windows(prefix)) |->
        MidpointAt(CHOOSE w \in Windows(prefix) :
                      Cardinality({v \in Windows(prefix) : Before(v, w)}) = n - 1)]

RECURSIVE SumCounts(_)
SumCounts(v) ==
    IF v = <<>> THEN 0 ELSE Head(v).observation_count + SumCounts(Tail(v))

\* The InferredRepeaters of a prefix in the output.
ResultsOf(prefix) == SelectSeq(results, LAMBDA r : r.prefix = format_02x(prefix))

\* ---------------------------------------------------------------------- C15

\* How often point i occurs in the clusters.
RECURSIVE Occurrences(_, _)
Occurrences(i, clusters) ==
    IF clusters = <<>> THEN 0
    ELSE Cardinality({k \in 1..Len(Head(clusters)) : Head(clusters)[k] = i})
         + Occurrences(i, Tail(clusters))

\* The clusters dbscan makes of the midpoints of a prefix.
ClustersOf(prefix) ==
    dbscan(Recorded(prefix), DBSCAN_EPSILON_KM, DBSCAN_MIN_POINTS)

\* C15: every Known -> Unknown -> Known midpoint belongs to exactly one
\* emitted InferredRepeater: each midpoint occurs once in the clusters of its
\* prefix, and the observation counts of the output add up to the number of
\* windows in the input paths.
C15_EveryMidpointCountedOnce ==
    /\ lpc # "idle" =>
          \A prefix \in DOMAIN observations_by_prefix :
              \A i \in 1..Len(Recorded(prefix)) :
                  Occurrences(i, ClustersOf(prefix)) = 1
    /\ Localized =>
          SumCounts(results)
              = Cardinality(UNION {Windows(prefix) : prefix \in UnknownPrefixes})

\* Four windows in three paths came out as three InferredRepeaters.
C15_Witness ==
    /\ Localized
    /\ Cardinality(UNION {Windows(prefix) : prefix \in UnknownPrefixes}) = 4
    /\ Len(results) = 3
    /\ SumCounts(results) = 4

\* ---------------------------------------------------------------------- C16

\* The characters of a two-digit lowercase hexadecimal number.
LowerHex == (48..57) \cup (97..102)

\* a is at most b in (prefix, lat): the prefix strings compared character by
\* character, the latitude second.
AtMost(a, b) ==
    \/ a.prefix[1] < b.prefix[1]
    \/ a.prefix[1] = b.prefix[1] /\ a.prefix[2] < b.prefix[2]
    \/ a.prefix = b.prefix /\ a.lat <= b.lat

\* C16: the list localize_unknowns returns is non-decreasing in
\* (prefix, lat), the two-digit lowercase hex prefix compared first and the
\* centroid latitude second.
C16_OutputSorted ==
    Localized =>
        /\ \A k \in 1..Len(results) :
              /\ Len(results[k].prefix) = 2
              /\ results[k].prefix[1] \in LowerHex
              /\ results[k].prefix[2] \in LowerHex
        /\ \A k \in 1..(Len(results) - 1) : AtMost(results[k], results[k + 1])

\* Both prefixes and two latitudes of one prefix are in the output, and the
\* paths gave the later prefix first and the higher latitude first.
C16_Witness ==
    /\ Localized
    /\ paths = <<<<Known(1), Unknown(16), Known(1), Unknown(10), Known(1)>>,
                 <<Known(0), Unknown(10), Known(0)>>>>
    /\ Len(results) = 3
    /\ results[1].prefix = <<48, 97>>
    /\ results[1].lat < results[2].lat
    /\ results[3].prefix = <<49, 48>>

\* ---------------------------------------------------------------------- C17

\* C17: a midpoint is recorded for an Unknown(p) node exactly when its
\* predecessor and its successor in the same path are both Known: the
\* midpoints recorded under p are those of the windows of p, in order, and
\* Unknown nodes in a row, at an end of a path or in a path shorter than 3
\* add nothing; no window spans two paths.
C17_MidpointsAreTheWindows ==
    lpc # "idle" =>
        /\ DOMAIN observations_by_prefix
              = {prefix \in UnknownPrefixes : Windows(prefix) # {}}
        /\ \A prefix \in UnknownPrefixes :
              Recorded(prefix) = ExpectedMidpoints(prefix)

\* A path that ends in Unknown, followed by a path with two Unknowns in a
\* row, followed by a path with one window: one midpoint.
C17_Witness ==
    /\ Localized
    /\ paths = <<<<Known(0), Unknown(10)>>,
                 <<Known(0), Unknown(10), Unknown(10), Known(1)>>,
                 <<Known(0), Unknown(10), Known(1)>>>>
    /\ Recorded(10) = <<LinkMidpoint(4000, 0)>>
    /\ Recorded(16) = <<>>

\* ---------------------------------------------------------------------- C18

\* Midpoints a and b of a prefix are at most 50 km apart.
Near(prefix, a, b) ==
    haversine_distance_cm(Recorded(prefix)[a].lat, Recorded(prefix)[b].lat)
        <= 50 * 100000

\* The midpoints of a prefix that a chain of near midpoints links to those in S.
RECURSIVE Chained(_, _)
Chained(prefix, S) ==
    LET more == S \cup {b \in 1..Len(Recorded(prefix)) :
                            \E a \in S : Near(prefix, a, b)}
    IN  IF more = S THEN S ELSE Chained(prefix, more)

\* Midpoints a and b of a prefix are in one cluster.
Together(prefix, a, b) ==
    \E k \in 1..Len(ClustersOf(prefix)) :
        /\ Occurrences(a, <<ClustersOf(prefix)[k]>>) > 0
        /\ Occurrences(b, <<ClustersOf(prefix)[k]>>) > 0

\* The midpoints of a prefix that no earlier midpoint is chained to.
Leaders(prefix) ==
    {a \in 1..Len(Recorded(prefix)) :
        \A b \in Chained(prefix, {a}) : a <= b}

\* C18: two midpoints end up in the same InferredRepeater exactly when they
\* were recorded under the same prefix and a chain of midpoints of that
\* prefix, consecutive ones at most 50 km apart, links them; the output has
\* one InferredRepeater per such chain component of a prefix, holding the
\* midpoints of that prefix only.
C18_ClustersAreChains ==
    /\ lpc # "idle" =>
          \A prefix \in DOMAIN observations_by_prefix :
              \A a \in 1..Len(Recorded(prefix)), b \in 1..Len(Recorded(prefix)) :
                  Together(prefix, a, b) <=> b \in Chained(prefix, {a})
    /\ Localized =>
          \A prefix \in UnknownPrefixes :
              /\ Len(ResultsOf(prefix)) = Cardinality(Leaders(prefix))
              /\ SumCounts(ResultsOf(prefix)) = Len(Recorded(prefix))

\* Midpoints at 0, 0.4 and 0.8 degree of one prefix are one InferredRepeater,
\* though the outer two are 89 km apart; a midpoint of the other prefix at 0
\* degree is another.
C18_Witness ==
    /\ Localized
    /\ Recorded(10) = <<LinkMidpoint(0, 0), LinkMidpoint(4000, 0), LinkMidpoint(8000, 0)>>
    /\ Recorded(16) = <<LinkMidpoint(0, 0)>>
    /\ results = <<[prefix |-> <<48, 97>>, lat |-> 4000, lon |-> 0,
                    observation_count |-> 3],
                   [prefix |-> <<49, 48>>, lat |-> 0, lon |-> 0,
                    observation_count |-> 1]>>

\* ---------------------------------------------------------------------- C19

\* The keys of the hash map in ascending order.
RECURSIVE Ascending(_)
Ascending(S) ==
    IF S = {} THEN <<>>
    ELSE LET least == CHOOSE x \in S : \A y \in S : x <= y
         IN  <<least>> \o Ascending(S \ {least})

\* The output when the loop of line 72 takes the keys in the given order.
RECURSIVE ClusteredInOrder(_, _)
ClusteredInOrder(acc, keys) ==
    IF keys = <<>> THEN acc
    ELSE ClusteredInOrder(push_clusters(acc, Head(keys), Recorded(Head(keys)),
                                        ClustersOf(Head(keys))),
                          Tail(keys))

\* C19: localize_unknowns returns the same list in the same order whatever
\* order the hash map yields its keys in: the list it returns is the one that
\* ascending order gives.
C19_SameOutputInAnyOrder ==
    Localized =>
        results = sort_by(ClusteredInOrder(<<>>, Ascending(DOMAIN observations_by_prefix)))

\* Midpoints of both prefixes at the same latitude: the map has two keys and
\* the latitude does not tell the two InferredRepeaters apart.
C19_Witness ==
    /\ Localized
    /\ DOMAIN observations_by_prefix = UnknownPrefixes
    /\ Len(results) = 2
    /\ results[1].lat = results[2].lat

\* ---------------------------------------------------------------------- C21
\* C21: every forward step leaves, for each state it made active, a
\* back-pointer for that step that names a state active one step earlier,
\* and decode_path never returns the error "Broken path during backtracking".
C21_BackPointersComplete ==
    [][/\ (pc = "forward" /\ t' = t + 1) =>
              \A s \in DOMAIN current_costs' :
                  /\ s \in DOMAIN backpointers'[t']
                  /\ backpointers'[t'][s] \in DOMAIN current_costs
       /\ result'.err # "Broken path during backtracking"]_vars

\* A decode of three observations whose last step had two active states and
\* whose path was read off the back-pointers.
C21_Witness ==
    /\ Returned
    /\ result.ok
    /\ Len(observations) = 3
    /\ Cardinality(DOMAIN backpointers[3]) >= 2
    /\ backpointers[3][StateOf(result.path[3])] = StateOf(result.path[2])
    /\ backpointers[2][StateOf(result.path[2])] = StateOf(result.path[1])

\* ---------------------------------------------------------------------- C22
\* C22: at every step of every decode the Unknown state is active with a
\* finite cost, and decode_path returns Ok whatever the graph and the stream.
C22_UnknownAlwaysActive ==
    /\ pc = "forward" =>
          /\ unknown_state_idx \in DOMAIN current_costs
          /\ current_costs[unknown_state_idx] < Infinity
    /\ Returned => result.ok

\* The last step of a decode on a graph with no repeater at all: Unknown is
\* the only state there is.
C22_Witness ==
    /\ pc = "forward"
    /\ DOMAIN nodes = {}
    /\ t = 3
    /\ DOMAIN current_costs = {unknown_state_idx}
    /\ current_costs[unknown_state_idx] = 2 * COST_TRANSITION_UNKNOWN_TO_UNKNOWN

\* ---------------------------------------------------------------------- C26
\* C26: a stream of one observation o decodes to [Known(k)], k the smallest
\* index of a repeater of prefix o, and to [Unknown(o)] when there is none.
C26_SingleObservation ==
    (Returned /\ Len(observations) = 1) =>
        IF Matching(observations[1]) = {}
        THEN result = Ok(<<Unknown(observations[1])>>)
        ELSE result = Ok(<<Known(CHOOSE k \in Matching(observations[1]) :
                                    \A j \in Matching(observations[1]) : k <= j)>>)

\* Two repeaters share the prefix; the first is returned.
C26_Witness ==
    /\ Returned
    /\ Len(observations) = 1
    /\ Matching(observations[1]) = {0, 1}
    /\ result = Ok(<<Known(0)>>)

\* ------------------------------------------------ decodes on three repeaters

\* Repeaters far from one another (0 and 1.4 degrees, no link), out of reach
\* (0 and 1.05, capped at 1000.0), close (1.05 and 1.4, a cheap link) and
\* joined by links dearer than an Unknown penalty (0 and 0.5, 0.5 and 1.05).
ChainRepeaters == [prefix : Prefixes, lat : {0, 50, 105, 140}]

\* Tables of exactly three repeaters.
ChainTables == [0..2 -> ChainRepeaters]

\* Streams of up to four observations.
ChainStreams == UNION {[1..n -> ObsBytes] : n \in 0..4}

\* A caller decodes a stream of up to four observations.
decode_chain ==
    /\ pc = "idle"
    /\ \E obs \in ChainStreams : Enter(obs)
    /\ UNCHANGED earlier
    /\ UNCHANGED elsewhere

InitChain ==
    /\ nodes \in ChainTables
    /\ adjacency = NewAdjacency(nodes, None, TRUE)
    /\ nodes_by_prefix = NewNodesByPrefix(nodes)
    /\ observations = <<>>
    /\ pc = "idle"
    /\ t = 0
    /\ current_costs = EmptyMap
    /\ backpointers = <<>>
    /\ result = NoResult
    /\ earlier = NoResult
    /\ TerrainIdle
    /\ PrefixIdle
    /\ LocalizeIdle
    /\ TasksIdle
    /\ PathfindingIdle

NextChain ==
    \/ decode_chain
    \/ forward_step
    \/ finish
    \/ release

\* Decodes of streams of up to four observations on graphs of three
\* repeaters.
SpecChain == InitChain /\ [][NextChain]_vars

\* ---------------------------------------------------------------------- C23
\* C23 as claimed: in a returned path, Unknown at position t-1 and a
\* repeater of prefix o_t mean the node at position t is Known.
C23_SnapsBackOnAnyMatch ==
    (Returned /\ result.ok) =>
        \A i \in 2..Len(result.path) :
            (IsUnknown(result.path[i - 1]) /\ Matching(observations[i]) # {})
                => IsKnown(result.path[i])

\* C23 amended: the same when position t is the last of the path or is
\* followed by an Unknown node; before a Known node the path may stay
\* Unknown over an observation a repeater matches.
C23_SnapsBackUnlessKnownFollows ==
    (Returned /\ result.ok) =>
        \A i \in 2..Len(result.path) :
            (/\ IsUnknown(result.path[i - 1])
             /\ Matching(observations[i]) # {}
             /\ (i = Len(result.path) \/ IsUnknown(result.path[i + 1])))
                => IsKnown(result.path[i])

\* A path that leaves Unknown for a matching repeater and enters it again.
C23_Witness ==
    /\ Returned
    /\ result.ok
    /\ Len(result.path) = 4
    /\ IsUnknown(result.path[1])
    /\ IsKnown(result.path[2])
    /\ IsUnknown(result.path[3])
    /\ IsUnknown(result.path[4])

\* ---------------------------------------------------------------------- C24
\* C24: for a stream of two or more observations whose last observation is
\* the prefix of a repeater, the returned path does not end with two
\* Unknown nodes.
C24_NoTwoUnknownsAtTheEnd ==
    (/\ Returned
     /\ result.ok
     /\ Len(observations) >= 2
     /\ Matching(observations[Len(observations)]) # {})
        => ~(/\ IsUnknown(result.path[Len(observations)])
             /\ IsUnknown(result.path[Len(observations) - 1]))

\* A path that ends Known, Unknown although a repeater has the prefix of the
\* last observation.
C24_Witness ==
    /\ Returned
    /\ result.ok
    /\ Len(observations) = 3
    /\ Matching(observations[3]) # {}
    /\ IsUnknown(result.path[3])
    /\ IsKnown(result.path[2])

\* ---------------------------------------------------------------------- C25
\* C25: no returned path holds Known(i), Known(j) in a row with an adjacency
\* cost i -> j of 16.0 or more.
C25_NoEdgeOfSixteenOrMore ==
    (Returned /\ result.ok) =>
        \A i \in 1..(Len(result.path) - 1) :
            (IsKnown(result.path[i]) /\ IsKnown(result.path[i + 1])) =>
                \A c \in EdgeCosts(result.path[i][2], result.path[i + 1][2]) :
                    c < 16 * 1000000

\* Two repeaters joined by an edge of 17.48 match the last two observations
\* and the path does not take the edge.
C25_Witness ==
    /\ Returned
    /\ result.ok
    /\ Len(observations) = 3
    /\ \E i \in Matching(observations[2]), j \in Matching(observations[3]) :
          /\ \E c \in EdgeCosts(i, j) : c >= 16 * 1000000
          /\ ~(result.path[2] = Known(i) /\ result.path[3] = Known(j))
    /\ IsKnown(result.path[3])

\* ---------------------------------------------------------------- viterbi.rs

\* const UNKNOWN_LINK_COST: f64 = 8.0
UNKNOWN_LINK_COST == 8000000

\* TrellisNode { cost, prev_node_idx }, prev_node_idx -1 standing for None.
TrellisNode(cost, prev_node_idx) == [cost |-> cost, prev_node_idx |-> prev_node_idx]

\* Lines 42-63: row 0 of the trellis.  States 0..N-1 are the repeaters,
\* state N is Unknown; a matching repeater and Unknown both start at 0.0.
viterbi_initialization(ns, obs) ==
    LET unknown == Cardinality(DOMAIN ns)
    IN  [state \in 0..unknown |->
            IF state = unknown \/ ns[state].prefix = obs[1]
            THEN TrellisNode(0, -1)
            ELSE TrellisNode(Infinity, -1)]

\* Lines 84-110: the loop over prev_state for one curr_state; best is the
\* TrellisNode built so far.  A Known -> Known step costs link_cost of the
\* two repeaters, also from a repeater to itself and also when link_cost is
\* the cap 1000.0; every other step costs UNKNOWN_LINK_COST.
RECURSIVE viterbi_best_prev(_, _, _, _, _, _)
viterbi_best_prev(ns, terrain, row, curr_state, prev_state, best) ==
    LET unknown == Cardinality(DOMAIN ns)
        prev_cost == row[prev_state].cost
        trans_cost == IF curr_state < unknown /\ prev_state < unknown
                      THEN link_cost(ns[prev_state].lat, ns[curr_state].lat,
                                     terrain, TRUE)
                      ELSE UNKNOWN_LINK_COST
    IN  IF prev_state > unknown THEN best
        ELSE viterbi_best_prev(ns, terrain, row, curr_state, prev_state + 1,
                 IF /\ prev_cost # Infinity
                    /\ trans_cost # Infinity
                    /\ prev_cost + trans_cost < best.cost
                 THEN TrellisNode(prev_cost + trans_cost, prev_state)
                 ELSE best)

\* Lines 66-122: the forward pass from step tt on (0-based); trellis holds
\* the rows of the steps before it.  The value is the full trellis, or <<>>
\* when a step has no reachable state.
RECURSIVE viterbi_forward(_, _, _, _, _)
viterbi_forward(ns, obs, terrain, trellis, tt) ==
    LET unknown == Cardinality(DOMAIN ns)
        row == [curr_state \in 0..unknown |->
                   IF curr_state < unknown /\ ns[curr_state].prefix # obs[tt + 1]
                   THEN TrellisNode(Infinity, -1)
                   ELSE viterbi_best_prev(ns, terrain, trellis[tt], curr_state, 0,
                                          TrellisNode(Infinity, -1))]
        any_reachable == \E state \in 0..unknown : row[state].cost # Infinity
    IN  IF tt >= Len(obs) THEN trellis
        ELSE IF ~any_reachable THEN <<>>
        ELSE viterbi_forward(ns, obs, terrain, Append(trellis, row), tt + 1)

\* Lines 125-134: the first state of strictly lowest cost in the last row;
\* best is <<cost, state>>, state -1 standing for None.
RECURSIVE viterbi_termination(_, _, _)
viterbi_termination(row, i, best) ==
    IF i \notin DOMAIN row THEN best
    ELSE viterbi_termination(row, i + 1,
                             IF row[i].cost < best[1] THEN <<row[i].cost, i>> ELSE best)

\* Lines 146-157: the walk back from step tt (0-based); path is in reverse
\* order.
RECURSIVE viterbi_backtrack(_, _, _, _, _, _)
viterbi_backtrack(trellis, unknown, obs, curr_idx, tt, path) ==
    LET prev_idx == trellis[tt + 1][curr_idx].prev_node_idx
    IN  IF tt < 1 THEN Ok(Reverse(path))
        ELSE IF prev_idx = -1 THEN Err("Broken path during backtracking")
        ELSE viterbi_backtrack(trellis, unknown, obs, prev_idx, tt - 1,
                 Append(path, IF prev_idx < unknown THEN Known(prev_idx)
                              ELSE Unknown(obs[tt])))

\* viterbi::decode_path(nodes, observations, terrain), lines 30-163.
viterbi_decode_path(ns, obs, terrain) ==
    LET unknown == Cardinality(DOMAIN ns)
        trellis == viterbi_forward(ns, obs, terrain,
                                   <<viterbi_initialization(ns, obs)>>, 1)
        best == viterbi_termination(trellis[Len(obs)], 0, <<Infinity, -1>>)
    IN  IF obs = <<>> THEN Ok(<<>>)
        ELSE IF trellis = <<>> THEN Err("Viterbi stuck: no reachable states")
        ELSE IF best[2] = -1 THEN Err("No valid path found (final state unreachable)")
        ELSE viterbi_backtrack(trellis, unknown, obs, best[2], Len(obs) - 1,
                 <<IF best[2] < unknown THEN Known(best[2])
                   ELSE Unknown(obs[Len(obs)])>>)

\* --------------------------------------------- the two decoders, side by side

\* The caller hands the repeaters and the stream it has decoded with the
\* graph to viterbi::decode_path, without terrain.
dense_decode ==
    /\ pc = "done"
    /\ call.op = "none"
    /\ call' = [op |-> "viterbi::decode_path",
                ret |-> viterbi_decode_path(nodes, observations, None)]
    /\ UNCHANGED <<decoder, terrain_map, p1, p2, id, localization, suspended,
                   pathfinding>>

\* The caller drops both answers.
release_both ==
    /\ pc = "done"
    /\ call.op # "none"
    /\ pc' = "idle"
    /\ observations' = <<>>
    /\ t' = 0
    /\ current_costs' = EmptyMap
    /\ backpointers' = <<>>
    /\ result' = NoResult
    /\ call' = NoCall
    /\ UNCHANGED <<graph, earlier, terrain_map, p1, p2, id, localization, suspended,
                   pathfinding>>

NextDense ==
    \/ decode_path
    \/ forward_step
    \/ finish
    \/ dense_decode
    \/ release_both

\* A stream decoded by NetworkGraph::decode_path and then by
\* viterbi::decode_path over the same repeaters.
SpecDense == Init /\ [][NextDense]_vars

\* ---------------------------------------------------------------------- C27

\* Both decoders have returned.
BothReturned == Returned /\ call.op = "viterbi::decode_path"

\* C27: for the same repeaters and the same stream viterbi::decode_path,
\* called without terrain, and NetworkGraph::decode_path return the same
\* sequence of path nodes.
C27_DecodersAgree == BothReturned => call.ret = result

\* ---------------------------------------------------------------------- C28

\* The point of the terrain map repeater i stands at.
PointOf(i) == nodes[i].lat * FinePerHundredth

\* The number of 30 m steps of the path between repeaters i and j.
StepsBetween(i, j) ==
    (haversine_distance_cm(PointOf(i), PointOf(j)) + SAMPLE_SPACING - 1)
        \div SAMPLE_SPACING

\* The line of sight from repeater i to repeater j cannot be certified clear:
\* the check reports it blocked, or no tile covers an endpoint or a sample of
\* the path.
Uncertified(i, j) ==
    \/ check_line_of_sight(terrain_map[2], PointOf(i), ANTENNA_HEIGHT,
                           PointOf(j), ANTENNA_HEIGHT) = OkBool(FALSE)
    \/ get_elevation(terrain_map[2], PointOf(i), 1) = None
    \/ get_elevation(terrain_map[2], PointOf(j), 1) = None
    \/ \E k \in 1..(StepsBetween(i, j) - 1) :
          get_elevation(terrain_map[2],
                        PointOf(i) * StepsBetween(i, j)
                            + (PointOf(j) - PointOf(i)) * k,
                        StepsBetween(i, j)) = None

\* C28: a graph built with a terrain map stores no edge i -> j for a pair
\* whose line of sight is reported blocked or for which terrain data is
\* missing at an endpoint or along the path.
C28_UncertifiedPairsOmitted ==
    (GraphBuilt /\ terrain_map # None) =>
        \A i \in DOMAIN nodes, j \in DOMAIN nodes :
            (i # j /\ Uncertified(i, j)) => j \notin Neighbours(i)

\* ------------------------------------------------- two decodes on one graph

\* The locals of the decode_path call that is running: its argument, its
\* position, current_costs, backpointers and the value it returns.
running ==
    [observations |-> observations, pc |-> pc, t |-> t,
     current_costs |-> current_costs, backpointers |-> backpointers,
     result |-> result]

\* A changed switch_task: current_costs is not a local of the call but one
\* map behind the shared &self, and stays where it is when the other call
\* goes on.
switch_task_shared_costs ==
    /\ suspended' = running
    /\ observations' = suspended.observations
    /\ pc' = suspended.pc
    /\ t' = suspended.t
    /\ backpointers' = suspended.backpointers
    /\ result' = suspended.result
    /\ UNCHANGED <<graph, current_costs, earlier, terrain_calls, id, localization,
                   pathfinding>>

\* The scheduler lets the other decode_path call go on.  Both calls borrow
\* the graph through &self; each has its own locals (lines 127-158).
switch_task ==
    /\ suspended' = running
    /\ observations' = suspended.observations
    /\ pc' = suspended.pc
    /\ t' = suspended.t
    /\ current_costs' = suspended.current_costs
    /\ backpointers' = suspended.backpointers
    /\ result' = suspended.result
    /\ UNCHANGED <<graph, earlier, terrain_calls, id, localization, pathfinding>>

\* Tables of two repeaters, on one spot or 50 km apart, of equal or
\* different prefixes.
TaskTables == [0..1 -> [prefix : Prefixes, lat : {0, 45}]]

\* Streams of up to three observations.
TaskStreams == UNION {[1..n -> ObsBytes] : n \in 0..3}

\* A thread calls graph.decode_path(&obs).
decode_task ==
    /\ pc = "idle"
    /\ \E obs \in TaskStreams : Enter(obs)
    /\ UNCHANGED earlier
    /\ UNCHANGED elsewhere

InitTasks ==
    /\ nodes \in TaskTables
    /\ adjacency = NewAdjacency(nodes, None, TRUE)
    /\ nodes_by_prefix = NewNodesByPrefix(nodes)
    /\ observations = <<>>
    /\ pc = "idle"
    /\ t = 0
    /\ current_costs = EmptyMap
    /\ backpointers = <<>>
    /\ result = NoResult
    /\ earlier = NoResult
    /\ TerrainIdle
    /\ PrefixIdle
    /\ LocalizeIdle
    /\ TasksIdle
    /\ PathfindingIdle

NextTasks ==
    \/ decode_task
    \/ forward_step
    \/ finish
    \/ switch_task

\* Two decode_path calls on one graph, their steps interleaved in any way.
SpecTasks == InitTasks /\ [][NextTasks]_vars

\* ---------------------------------------------------------------------- C29

\* The forward step of lines 161-211 over the cost map costs, the active
\* states visited in the given order.
RECURSIVE VisitAll(_, _, _, _)
VisitAll(acc, costs, order, obs) ==
    IF order = <<>> THEN acc
    ELSE VisitAll(Visit(acc, Head(order), costs[Head(order)], obs),
                  costs, Tail(order), obs)

\* The values a decode of obs returns from step k on when nothing else
\* runs; reach gives each active state its cost and the path that leads to
\* it.  The last line picks the first state of lowest cost.
RECURSIVE AloneFrom(_, _, _)
AloneFrom(obs, k, reach) ==
    IF k > Len(obs)
    THEN {Ok(reach[CHOOSE s \in DOMAIN reach :
                     \A r \in DOMAIN reach :
                         \/ reach[s].cost < reach[r].cost
                         \/ reach[s].cost = reach[r].cost /\ s <= r].path)}
    ELSE UNION {AloneFrom(obs, k + 1,
                    [s \in DOMAIN nxt.costs |->
                        [cost |-> nxt.costs[s],
                         path |-> Append(reach[nxt.bps[s]].path,
                                         IF s < unknown_state_idx THEN Known(s)
                                         ELSE Unknown(obs[k]))]]) :
                nxt \in {VisitAll([costs |-> EmptyMap, bps |-> EmptyMap],
                                  [s \in DOMAIN reach |-> reach[s].cost],
                                  order, obs[k]) :
                         order \in IterationOrders(DOMAIN reach)}}

\* The values decode_path(obs) returns on the graph when it runs alone.
RunAlone(obs) ==
    IF obs = <<>> THEN {Ok(<<>>)}
    ELSE AloneFrom(obs, 2,
             [s \in DOMAIN InitialCosts(obs[1]) |->
                 [cost |-> InitialCosts(obs[1])[s],
                  path |-> <<IF s < unknown_state_idx THEN Known(s)
                             ELSE Unknown(obs[1])>>]])

MaxStations == 4

\* find_path reads only lat and lon of a repeater.
Stations == [prefix : {160}, lat : Lats]

StationTables == UNION {[0..(n - 1) -> Stations] : n \in 1..MaxStations}

\* struct State.
State(cost, node_idx) == [cost |-> cost, node_idx |-> node_idx]

\* A changed heap_pop: State::partial_cmp compares self with other, not
\* other with self, and the max-heap yields a state of highest cost.
heap_pop_not_reversed(h) == {s \in h : \A o \in h : s.cost >= o.cost}

\* The states heap.pop() may return: a greatest one by Ord for State, which
\* compares the costs in reverse; states of equal cost compare Equal.
heap_pop(h) == {s \in h : \A o \in h : s.cost <= o.cost}

\* *dist.get(&i).unwrap_or(&f64::INFINITY).
dist_or_infinity(d, i) == IF i \in DOMAIN d THEN d[i] ELSE Infinity

\* link_cost as find_path calls it: coordinates only, no terrain.
edge_cost(node_idx, i) == link_cost(nodes[node_idx].lat, nodes[i].lat, None, TRUE)

\* Lines 44-52: from end_idx along prev as long as there is an entry.
RECURSIVE reconstruct(_, _, _)
reconstruct(pm, current, path) ==
    IF current \in DOMAIN pm
    THEN reconstruct(pm, pm[current], <<pm[current]>> \o path)
    ELSE path

\* Lines 60-87: the neighbours i, i + 1, ... of the popped state.
RECURSIVE explore(_, _, _, _)
explore(acc, cost, node_idx, i) ==
    IF i \notin DOMAIN nodes THEN acc
    ELSE IF i = node_idx THEN explore(acc, cost, node_idx, i + 1)
    ELSE IF edge_cost(node_idx, i) = Infinity \/ edge_cost(node_idx, i) > 500 * 1000000
         THEN explore(acc, cost, node_idx, i + 1)
    ELSE LET next_cost == cost + edge_cost(node_idx, i)
         IN  IF next_cost < dist_or_infinity(acc.dist, i)
             THEN explore([dist |-> Put(acc.dist, i, next_cost),
                           prev |-> Put(acc.prev, i, node_idx),
                           heap |-> acc.heap \cup {State(next_cost, i)}],
                          cost, node_idx, i + 1)
             ELSE explore(acc, cost, node_idx, i + 1)

\* find_path(nodes, start_idx, end_idx) up to the loop (lines 30-39).
find_path ==
    /\ fpc = "idle"
    /\ \E s \in DOMAIN nodes, e \in DOMAIN nodes :
          /\ start_idx' = s
          /\ end_idx' = e
          /\ dist' = Put(EmptyMap, s, 0)
          /\ heap' = {State(0, s)}
    /\ prev_map' = EmptyMap
    /\ fpc' = "loop"
    /\ UNCHANGED <<decoder, terrain_calls, id, localization, suspended, route>>

\* One round of `while let Some(State { cost, node_idx }) = heap.pop()`
\* (lines 41-88), or the end of the loop and `None` (line 90).
while_let_pop ==
    /\ fpc = "loop"
    /\ IF heap = {}
       THEN /\ route' = None
            /\ fpc' = "done"
            /\ UNCHANGED <<dist, prev_map, heap>>
       ELSE \E s \in heap_pop(heap) :
              IF s.node_idx = end_idx
              THEN /\ route' = Some(reconstruct(prev_map, end_idx, <<end_idx>>))
                   /\ fpc' = "done"
                   /\ heap' = heap \ {s}
                   /\ UNCHANGED <<dist, prev_map>>
              ELSE IF s.cost > dist_or_infinity(dist, s.node_idx)
              THEN /\ heap' = heap \ {s}
                   /\ UNCHANGED <<dist, prev_map, route, fpc>>
              ELSE LET acc == explore([dist |-> dist, prev |-> prev_map,
                                       heap |-> heap \ {s}],
                                      s.cost, s.node_idx, 0)
                   IN  /\ dist' = acc.dist
                       /\ prev_map' = acc.prev
                       /\ heap' = acc.heap
                       /\ UNCHANGED <<route, fpc>>
    /\ UNCHANGED <<decoder, terrain_calls, id, localization, suspended,
                   start_idx, end_idx>>

InitPath ==
    /\ nodes \in StationTables
    /\ adjacency = NewAdjacency(nodes, None, TRUE)
    /\ nodes_by_prefix = NewNodesByPrefix(nodes)
    /\ observations = <<>>
    /\ pc = "idle"
    /\ t = 0
    /\ current_costs = EmptyMap
    /\ backpointers = <<>>
    /\ result = NoResult
    /\ earlier = NoResult
    /\ TerrainIdle
    /\ PrefixIdle
    /\ LocalizeIdle
    /\ TasksIdle
    /\ PathfindingIdle

NextPath ==
    \/ find_path
    \/ while_let_pop

\* One call of find_path on a table of repeaters.
SpecPath == InitPath /\ [][NextPath]_vars

\* ---------------------------------------------------------------------- C30

\* A link of finite cost of at most 500 between two different repeaters.
Usable(a, b) ==
    /\ a # b
    /\ edge_cost(a, b) # Infinity
    /\ edge_cost(a, b) <= 500 * 1000000

\* The sequences of repeaters that go on from p over usable links, come to
\* end_idx and visit no repeater twice.
RECURSIVE RoutesFrom(_)
RoutesFrom(p) ==
    IF p[Len(p)] = end_idx THEN {p}
    ELSE UNION {RoutesFrom(Append(p, n)) :
                n \in {m \in DOMAIN nodes :
                          /\ \A k \in 1..Len(p) : p[k] # m
                          /\ Usable(p[Len(p)], m)}}

\* The total link cost of a sequence of repeaters.
RECURSIVE RouteCost(_)
RouteCost(p) ==
    IF Len(p) < 2 THEN 0
    ELSE edge_cost(p[1], p[2]) + RouteCost(Tail(p))

FindPathReturned == fpc = "done"

\* C30: find_path returns None exactly when no sequence of usable links
\* leads from start to end; otherwise it returns such a sequence, from start
\* to end, of the lowest total cost, and [start] when start is end.
C30_FindPathIsShortest ==
    FindPathReturned =>
        LET routes == RoutesFrom(<<start_idx>>)
        IN  /\ route = None <=> routes = {}
            /\ route # None =>
                   LET path == route[2]
                   IN  /\ path[1] = start_idx
                       /\ path[Len(path)] = end_idx
                       /\ \A k \in 1..(Len(path) - 1) : Usable(path[k], path[k + 1])
                       /\ \A r \in routes : RouteCost(path) <= RouteCost(r)
                       /\ start_idx = end_idx => path = <<start_idx>>

\* find_path has returned a path over a relay that is cheaper than the
\* usable direct link, and another repeater of the table is out of reach.
C30_Witness ==
    /\ FindPathReturned
    /\ route # None
    /\ Len(route[2]) = 3
    /\ Usable(start_idx, end_idx)
    /\ RouteCost(route[2]) < edge_cost(start_idx, end_idx)
    /\ \E i \in DOMAIN nodes : i \notin DOMAIN dist

=============================================================================
